---------------------------- MODULE Spec2Model ----------------------------
(***************************************************************************)
(* Model of the artifact-host-agent plugin: the host_artifact tool          *)
(* (tools.py), the reference rewriter (_extract_artifact_references,        *)
(* _replace_artifact_references), _host_single_artifact, _write_file, and   *)
(* the process-wide web server registry (web_server.py, lifecycle.py).      *)
(*                                                                         *)
(* Text and bytes are sequences of symbols.  A symbol stands for one        *)
(* character or for one of the fixed character groups the regular           *)
(* expressions of tools.py look for.                                        *)
(***************************************************************************)
EXTENDS Integers, Sequences, FiniteSets, TLC

(***************************************************************************)
(* Symbols                                                                 *)
(***************************************************************************)
\* the literal text "«artifact_content:" that opens a reference token
OPEN == "OPEN"
\* the literal text ">>>"
SEP == ">>>"
\* the character "»" (U+00BB)
CLOSE == "CLOSE"
\* the character "›" (U+203A)
RSAQUO == "RSAQUO"
\* a whitespace character
WS == " "
\* the character ":"
COLON == ":"
\* a byte that cannot occur in UTF-8 text (0xFF)
BADBYTE == "0xFF"
\* file name extensions, each one symbol
DotHtml == ".html"
DotHtm == ".htm"
DotHTML == ".HTML"
DotPng == ".png"

\* the character "/"
SLASH == "/"
\* the text "http://"
HTTP == "http://"

\* no instance (server instances and threads are numbered from 1)
None == 0

(***************************************************************************)
(* Small helpers                                                           *)
(***************************************************************************)
SetMax(S) == CHOOSE x \in S : \A y \in S : y <= x

SetMin(S) == CHOOSE x \in S : \A y \in S : x <= y

Range(s) == {s[k] : k \in 1..Len(s)}

\* str.strip(): drop leading and trailing whitespace
Strip(t) ==
  LET nonws == {k \in 1..Len(t) : t[k] # WS}
  IN IF nonws = {} THEN <<>> ELSE SubSeq(t, SetMin(nonws), SetMax(nonws))

(***************************************************************************)
(* Regular expressions of tools.py                                         *)
(*   extract:  «artifact_content:([^›»]+)\s*>>>                             *)
(*   replace:  «artifact_content:([^›»]+)\s*>>>[^»]*»                       *)
(* Python's matching is leftmost, greedy and backtracking.  With OPEN at    *)
(* position i the group starts at i+1 and runs over symbols other than      *)
(* RSAQUO and CLOSE; being greedy it ends right before the LAST ">>>" of    *)
(* that run (whitespace belongs to the class, so \s* matches nothing that   *)
(* the group did not take already); the group needs one symbol at least.    *)
(***************************************************************************)
\* [^›»]
InClass(c) == c \notin {RSAQUO, CLOSE}

\* last position of the maximal run of class symbols starting at j (j-1 when empty)
RunEnd(s, j) ==
  LET bad == {k \in j..Len(s) : ~InClass(s[k])}
  IN IF bad = {} THEN Len(s) ELSE SetMin(bad) - 1

\* position of the ">>>" that ends the match of the extract pattern at i; 0 when no match
ExtractMatchEnd(s, i) ==
  IF i > Len(s) \/ s[i] # OPEN THEN 0
  ELSE LET Q == {q \in (i + 2)..RunEnd(s, i + 1) : s[q] = SEP}
       IN IF Q = {} THEN 0 ELSE SetMax(Q)

\* re.findall(pattern, html_content): the groups of the non-overlapping matches, left to right
RECURSIVE FindAllFrom(_, _)
FindAllFrom(s, i) ==
  IF i > Len(s) THEN <<>>
  ELSE LET q == ExtractMatchEnd(s, i)
       IN IF q = 0 THEN FindAllFrom(s, i + 1)
          ELSE <<SubSeq(s, i + 1, q - 1)>> \o FindAllFrom(s, q + 1)

\* a rewriter that keeps every occurrence (no dict.fromkeys)
DictFromKeysKeepAll(names) == names

\* list(dict.fromkeys(filenames)): first occurrences, in order
RECURSIVE DictFromKeys(_)
DictFromKeys(names) ==
  IF names = <<>> THEN <<>>
  ELSE LET front == DictFromKeys(SubSeq(names, 1, Len(names) - 1))
           last == names[Len(names)]
       IN IF last \in Range(front) THEN front ELSE Append(front, last)

\* _extract_artifact_references(html_content)
ExtractArtifactReferences(html_content) ==
  LET matches == FindAllFrom(html_content, 1)
      filenames == [k \in 1..Len(matches) |-> Strip(matches[k])]
  IN DictFromKeys(filenames)

\* position of the "»" that ends the match of the replace pattern at i; 0 when no match
ReplaceMatchEnd(s, i) ==
  LET q == ExtractMatchEnd(s, i)
      closes == IF q = 0 THEN {} ELSE {c \in (q + 1)..Len(s) : s[c] = CLOSE}
  IN IF closes = {} THEN 0 ELSE SetMin(closes)

\* filename_map.get(original_filename, original_filename)
MapGet(filename_map, original_filename) ==
  IF original_filename \in DOMAIN filename_map
  THEN filename_map[original_filename] ELSE original_filename

\* re.sub(pattern, replace_reference, html_content)
RECURSIVE SubFrom(_, _, _)
SubFrom(s, i, filename_map) ==
  IF i > Len(s) THEN <<>>
  ELSE LET c == ReplaceMatchEnd(s, i)
       IN IF c = 0 THEN <<s[i]>> \o SubFrom(s, i + 1, filename_map)
          ELSE MapGet(filename_map, Strip(SubSeq(s, i + 1, ExtractMatchEnd(s, i) - 1)))
               \o SubFrom(s, c + 1, filename_map)

\* _replace_artifact_references(html_content, filename_map)
ReplaceArtifactReferences(html_content, filename_map) ==
  SubFrom(html_content, 1, filename_map)


(***************************************************************************)
(* File names, versions, bytes                                             *)
(***************************************************************************)
Extensions == {DotHtml, DotHtm, DotHTML, DotPng}

Digits == {"0", "1", "2", "3"}

DigitVal(c) == CASE c = "0" -> 0 [] c = "1" -> 1 [] c = "2" -> 2 [] c = "3" -> 3

\* artifact_filename.rsplit(":", 1)
RSplitColon(name) ==
  LET colons == {k \in 1..Len(name) : name[k] = COLON}
  IN IF colons = {} THEN <<name>>
     ELSE <<SubSeq(name, 1, SetMax(colons) - 1),
            SubSeq(name, SetMax(colons) + 1, Len(name))>>

\* the identifier as it is, version suffix included
FilenameBaseWithVersion(name) == name

\* parts[0]
FilenameBase(name) == RSplitColon(name)[1]

\* parts[1] if len(parts) > 1 else None   (None and "" are both falsy: <<>>)
VersionStr(name) == IF Len(RSplitColon(name)) > 1 THEN RSplitColon(name)[2] ELSE <<>>

\* int(version_str) succeeds: decimal digits, surrounding whitespace allowed
IsIntLiteral(version_str) ==
  /\ Strip(version_str) # <<>>
  /\ \A c \in Range(Strip(version_str)) : c \in Digits

RECURSIVE IntOfDigits(_)
IntOfDigits(ds) ==
  IF ds = <<>> THEN 0
  ELSE 10 * IntOfDigits(SubSeq(ds, 1, Len(ds) - 1)) + DigitVal(ds[Len(ds)])

\* int(version_str)
IntOf(version_str) == IntOfDigits(Strip(version_str))

\* "latest" taken as the last version listed
MaxVersionOfLast(versions) == versions[Len(versions)]

\* max(versions)
MaxVersionOf(versions) == SetMax(Range(versions))

\* '.' in name
HasDot(name) == \E k \in 1..Len(name) : name[k] \in Extensions

\* Path(filename_base).suffix
Suffix(name) ==
  IF name # <<>> /\ name[Len(name)] \in Extensions THEN <<name[Len(name)]>> ELSE <<>>

\* the custom name as it is given, the source's extension never appended
HostedFilenameAsGiven(custom_filename, filename_base) ==
  IF custom_filename # <<>> THEN custom_filename ELSE filename_base

\* lines 130-135 and 258-265: the name the artifact is hosted under
HostedFilename(custom_filename, filename_base) ==
  IF custom_filename # <<>> /\ ~HasDot(custom_filename) /\ HasDot(filename_base)
  THEN custom_filename \o Suffix(filename_base)
  ELSE IF custom_filename # <<>> THEN custom_filename ELSE filename_base

\* str.lower() on one symbol
Lower(c) == IF c = DotHTML THEN DotHtml ELSE c

\* hosted_filename.lower().endswith(('.html', '.htm'))
IsHtml(hosted_filename) ==
  /\ hosted_filename # <<>>
  /\ Lower(hosted_filename[Len(hosted_filename)]) \in {DotHtml, DotHtm}

\* a decode that never fails (errors='ignore')
ValidUtf8Lenient(bytes) == TRUE

\* artifact_bytes.decode('utf-8') succeeds
ValidUtf8(bytes) == BADBYTE \notin Range(bytes)

\* artifact_bytes.decode('utf-8'), defined when ValidUtf8
Decode(bytes) == bytes

\* updated_html.encode('utf-8')
Encode(text) == text

(***************************************************************************)
(* The hosting directory: file name -> bytes                               *)
(***************************************************************************)
\* an open that creates the file but does not truncate it (os.O_CREAT without O_TRUNC)
OpenNoTruncate(dir, name) == IF name \in DOMAIN dir THEN dir ELSE (name :> <<>>) @@ dir

\* open(path, 'wb'): create or truncate
OpenWb(dir, name) == (name :> <<>>) @@ dir

\* f.write(content), then close: the bytes go to the file from the position of this
\* file object, 0 since its open(); what the file holds beyond them stays
WriteBytes(dir, name, content) ==
  (name :> (content \o SubSeq(dir[name], Len(content) + 1, Len(dir[name])))) @@ dir

\* _write_file(path, content)
WriteFile(dir, name, content) == WriteBytes(OpenWb(dir, name), name, content)

\* what the file system can do with one _write_file call
\*   ok           the file holds content
\*   open_error   open() raises, the directory is untouched
\*   write_error  open() truncated the file, then write/close raises
WriteOutcomes(name) == IF name = <<>> THEN {"open_error"} ELSE {"ok", "open_error", "write_error"}

DirAfterWriteOpenCreates(dir, name, content, outcome) ==
  IF outcome = "ok" THEN WriteFile(dir, name, content) ELSE OpenWb(dir, name)

DirAfterWrite(dir, name, content, outcome) ==
  CASE outcome = "ok" -> WriteFile(dir, name, content)
    [] outcome = "open_error" -> dir
    [] outcome = "write_error" -> OpenWb(dir, name)

(***************************************************************************)
(* Inputs: identifiers, contexts, and what the artifact service holds       *)
(***************************************************************************)
\* bound on the version numbers the artifact service reports
MaxVersion == 2

\* host_artifact calls in one behaviour of Spec
MaxCalls == 1

\* host_artifact calls in one behaviour of SpecRepeat
MaxCallsRepeat == 2

\* «artifact_content:name >>> trailer»
Token(name, trailer) == <<OPEN>> \o name \o <<WS, SEP>> \o trailer \o <<CLOSE>>

DataUri == <<WS, "format:datauri">>

\* the same artifact referenced twice
DocDup == Token(<<"a">>, DataUri) \o Token(<<"a">>, DataUri)

\* two artifacts referenced, the second by version, text in between
DocTwo == Token(<<"a">>, DataUri) \o <<"x">> \o Token(<<"b", COLON, "1">>, <<>>)

\* a reference with a version, and one whose version is no number
DocVersioned == Token(<<"a", COLON, "1">>, <<>>) \o Token(<<"b", COLON, "x">>, <<>>)

\* one reference
DocOne == <<"x", "y">> \o Token(<<"a">>, DataUri)

\* no reference
DocPlain == <<"x">>

\* bytes that are not UTF-8, with the bytes of a token in them
DocBadUtf8 == <<BADBYTE>> \o Token(<<"a">>, DataUri)

AllDocs == {DocDup, DocTwo, DocVersioned, DocOne, DocPlain, DocBadUtf8}

RepeatDocs == {DocOne, DocPlain}

\* the bytes of an artifact that is no HTML document
BlobOf(filename_base) == <<"bytes of">> \o filename_base

\* the artifact_filename arguments tried
ArtifactIds ==
  { <<"p", DotHtml>>,
    <<"p", DotHtml, COLON, "2">>,
    <<"p", DotHtml, COLON, "x">>,
    <<"a">> }

\* the custom_filename arguments tried (<<>>: none given)
CustomNames == { <<>>, <<"q">> }

FullContext ==
  [present |-> TRUE, invocation_context |-> TRUE, app_name |-> TRUE, user_id |-> TRUE,
   session_id |-> TRUE, artifact_service |-> TRUE]

\* tool_context: complete, or with one part missing (present = FALSE: no tool_context)
ToolContexts ==
  {FullContext} \cup {[FullContext EXCEPT ![k] = FALSE] : k \in DOMAIN FullContext}

\* a host_artifact without the all([...]) check
ContextCompleteUnchecked(tc) == TRUE

\* all([app_name, user_id, session_id, artifact_service])
ContextComplete(tc) == tc.app_name /\ tc.user_id /\ tc.session_id /\ tc.artifact_service

\* what list_versions can return: duplicate-free sequences of versions, in any order
VersionLists ==
  {<<>>} \cup {<<v>> : v \in 1..MaxVersion}
         \cup {x \in (1..MaxVersion) \X (1..MaxVersion) : x[1] # x[2]}

\* what load_artifact can return for a file the service holds
Payloads(held, filename_base) ==
  IF IsHtml(filename_base) THEN held ELSE {BlobOf(filename_base)}

(***************************************************************************)
(* Results and exceptions                                                  *)
(***************************************************************************)
Msg(text, name, version) == [text |-> text, name |-> name, version |-> version, wrapped |-> FALSE]

Exc(type, message) == [type |-> type, message |-> message]

NoResult == [status |-> "none"]

\* what max(versions) raises on an empty list when the "if not versions" check is missing
ArtifactNotFoundMaxOfEmpty(filename_base) ==
  Exc("ValueError", Msg("max() arg is an empty sequence", <<>>, <<>>))

\* lines 233-234 and 104-105
ArtifactNotFound(filename_base) ==
  Exc("FileNotFoundError", Msg("Artifact '{filename_base}' not found.", filename_base, <<>>))

\* lines 252-253 and 123-124
ContentNotFound(filename_base, version) ==
  Exc("FileNotFoundError",
      Msg("Content for '{filename_base}' v{version_to_load} not found.", filename_base, <<version>>))

\* int(version_str) raising
InvalidLiteral(version_str) ==
  Exc("ValueError", Msg("invalid literal for int() with base 10", version_str, <<>>))

ServiceError == Exc("Exception", Msg("artifact service error", <<>>, <<>>))

WriteError(outcome) == Exc("OSError", Msg(outcome, <<>>, <<>>))

\* except clauses that catch FileNotFoundError alone
HostArtifactCatchNotFoundOnly(e) ==
  IF e.type = "FileNotFoundError"
  THEN [pc |-> "done", result |-> [status |-> "error", message |-> e.message]]
  ELSE [pc |-> "raised", result |-> NoResult]

\* lines 350-355: the except clauses of host_artifact
HostArtifactCatch(e) ==
  IF e.type = "FileNotFoundError"
  THEN [pc |-> "done", result |-> [status |-> "error", message |-> e.message]]
  ELSE [pc |-> "done",
        result |-> [status |-> "error", message |-> [e.message EXCEPT !.wrapped = TRUE]]]

\* lines 154-160: the except clause of _host_single_artifact
HostSingleCatch(artifact_filename, e) ==
  [status |-> "error", artifact_filename |-> artifact_filename, error |-> e.message]

\* lines 146-152
HostSingleSuccess(filename_base, version, hosted_filename, url) ==
  [status |-> "success", artifact_filename |-> filename_base, artifact_version |-> version,
   hosted_filename |-> hosted_filename, url |-> url]

\* lines 334-348
HostArtifactSuccess(filename_base, version, hosted_filename, url, referenced_artifacts) ==
  IF referenced_artifacts # <<>>
  THEN [status |-> "success",
        message |-> Msg("Artifact hosted successfully along with {n} referenced artifact(s)",
                        <<>>, <<Len(referenced_artifacts)>>),
        artifact_filename |-> filename_base, artifact_version |-> version,
        hosted_filename |-> hosted_filename, url |-> url,
        referenced_artifacts |-> referenced_artifacts]
  ELSE [status |-> "success",
        message |-> Msg("Artifact hosted successfully", <<>>, <<>>),
        artifact_filename |-> filename_base, artifact_version |-> version,
        hosted_filename |-> hosted_filename, url |-> url]

\* result.get("referenced_artifacts", [])
ReferencedArtifactsOf(res) ==
  IF "referenced_artifacts" \in DOMAIN res THEN res.referenced_artifacts ELSE <<>>

\* lines 312-316: the bytes to host once every reference was processed
RewrittenBytes(artifact_bytes, html_content, filename_map) ==
  IF DOMAIN filename_map # {}
  THEN Encode(ReplaceArtifactReferences(html_content, filename_map))
  ELSE artifact_bytes

(***************************************************************************)
(* Configuration and server instances                                      *)
(***************************************************************************)
\* init_function calls in one behaviour of SpecLifecycle
MaxInits == 2

\* later callers of start() make a new thread only while fewer than this many exist
MaxThreads == 2

\* lifecycle.py line 29: current_config.get("port", 8080)
DefaultPort == 8080

\* lifecycle.py line 30: current_config.get("host", "127.0.0.1")
DefaultHost == "127.0.0.1"

\* the config of init_function; base_url <<>>: none configured
DefaultConfig == [port |-> DefaultPort, host |-> DefaultHost, base_url |-> <<>>]

\* web_server.py lines 26-30: the attributes of a new instance (base_url is no attribute)
ArtifactWebServer(config) ==
  [host |-> config.host, port |-> config.port, server_thread |-> None]

\* tool_config of host_artifact: not given, or a dict with or without "base_url"
NoToolConfig == [given |-> FALSE, base_url |-> <<>>]

\* tools.py lines 267-269: tool_config.get("base_url"), None without a tool_config
\* (None and "" are both falsy: <<>>)
BaseUrlOf(tool_config) == IF tool_config.given THEN tool_config.base_url ELSE <<>>

(***************************************************************************)
(* web_server.py: get_url                                                  *)
(***************************************************************************)
DigitChars == <<"0", "1", "2", "3", "4", "5", "6", "7", "8", "9">>

\* str(n) of a non-negative int, as the f-string formats the port
RECURSIVE StrOfInt(_)
StrOfInt(n) ==
  IF n < 10 THEN <<DigitChars[n + 1]>>
  ELSE StrOfInt(n \div 10) \o <<DigitChars[(n % 10) + 1]>>

\* base_url.rstrip('/'): every trailing "/" is dropped
RECURSIVE RStripSlash(_)
RStripSlash(t) ==
  IF t # <<>> /\ t[Len(t)] = SLASH THEN RStripSlash(SubSeq(t, 1, Len(t) - 1)) ELSE t

\* a get_url that appends to the base URL as it is given
GetUrlNoStrip(server, filename, base_url) ==
  IF base_url # <<>>
  THEN base_url \o <<SLASH>> \o filename
  ELSE <<HTTP, server.host, COLON>> \o StrOfInt(server.port) \o <<SLASH>> \o filename

\* lines 172-188: get_url(filename, base_url) of the instance server
GetUrl(server, filename, base_url) ==
  IF base_url # <<>>
  THEN RStripSlash(base_url) \o <<SLASH>> \o filename
  ELSE <<HTTP, server.host, COLON>> \o StrOfInt(server.port) \o <<SLASH>> \o filename

(***************************************************************************)
(* State                                                                   *)
(***************************************************************************)
VARIABLES
  web_server_instance,  \* web_server.py: _web_server_instance (None or the server)
  hostdir,              \* the hosting directory: file name -> bytes
  docs,                 \* the HTML documents the artifact service holds
  calls_left,           \* host_artifact calls still to be made
  pc,                   \* where the host_artifact coroutine stands
  args,                 \* the arguments of the call
  loc,                  \* the local variables of host_artifact
  sub,                  \* the local variables of _host_single_artifact
  result,               \* what host_artifact returned
  svc_log,              \* the calls this host_artifact call made on the artifact service
  fs_log,               \* the _write_file calls of this host_artifact call
  ref_results,          \* what each _host_single_artifact call of this call returned
  last_written,         \* file name -> content of the last _write_file that completed
  fs_faulted,           \* some _write_file raised after truncating
  host_directory_exists,\* the hosting directory is on disk
  servers,              \* the ArtifactWebServer instances made so far
  threads,              \* the listener threads made so far
  init,                 \* where the running init_function call stands
  inits_left,           \* init_function calls still to be made
  latest,               \* how the latest init_function or cleanup_function call ended,
                        \* or what the latest HTTP request was answered
  workers,              \* the _write_file calls handed to worker threads by concurrent calls
  yolo_model,           \* object_detection/tools.py: _yolo_model (None or the model object)
  model_lock,           \* object_detection/tools.py: _model_lock (an asyncio.Lock)
  callers,              \* where each _get_yolo_model coroutine stands
  loads                 \* the YOLO(model_name) constructions started in worker threads

vars == <<web_server_instance, hostdir, docs, calls_left, pc, args, loc, sub, result,
          svc_log, fs_log, ref_results, last_written, fs_faulted,
          host_directory_exists, servers, threads, init, inits_left, latest, workers,
          yolo_model, model_lock, callers, loads>>

\* the state of the tool calls, and the state of the servers
toolVars == <<hostdir, docs, calls_left, pc, args, loc, sub, result, svc_log, fs_log,
              ref_results, last_written, fs_faulted, workers>>

serverVars == <<host_directory_exists, servers, threads, init, inits_left, latest>>

\* the state of the object detection tool's model cache
yoloVars == <<yolo_model, model_lock, callers, loads>>

\* web_server: what get_web_server() returned (line 193); dir_at_call: the hosting
\* directory when the call began
NoArgs ==
  [artifact_filename |-> <<>>, custom_filename |-> <<>>, tool_context |-> FullContext,
   tool_config |-> NoToolConfig, web_server |-> None, dir_at_call |-> <<>>]

\* version_to_load: <<>> is None, <<v>> the version v
NoLoc ==
  [filename_base |-> <<>>, version_to_load |-> <<>>, listed |-> FALSE, versions |-> <<>>,
   loaded_bytes |-> <<>>, artifact_bytes |-> <<>>, hosted_filename |-> <<>>,
   is_html |-> FALSE, decoded |-> FALSE, html_content |-> <<>>,
   referenced_filenames |-> <<>>, ref_idx |-> 0, filename_map |-> <<>>,
   referenced_artifacts |-> <<>>]

NoSub ==
  [artifact_filename |-> <<>>, filename_base |-> <<>>, version_to_load |-> <<>>,
   listed |-> FALSE, versions |-> <<>>, artifact_bytes |-> <<>>]

\* no init_function call is running
NoInit == [pc |-> "idle", config |-> DefaultConfig, server |-> None]

\* nothing has been called or requested yet
NoLast == [op |-> "none"]

\* the coroutines that call _get_yolo_model
MaxCallers == 3

YoloCallers == 1..MaxCallers

\* a coroutine that has not called _get_yolo_model yet; waited: it was suspended
\* on the lock; got: what the call returned
NoCaller == [pc |-> "idle", tool_config |-> <<>>, waited |-> FALSE, got |-> None]

\* asyncio.Lock(): not locked, nobody waiting
NoLock == [locked |-> FALSE, waiters |-> <<>>]

InitCommon ==
  /\ yolo_model = None
  /\ model_lock = NoLock
  /\ callers = [c \in YoloCallers |-> NoCaller]
  /\ loads = <<>>
  /\ web_server_instance = None
  /\ host_directory_exists = FALSE
  /\ servers = <<>>
  /\ threads = <<>>
  /\ init = NoInit
  /\ latest = NoLast
  /\ workers = <<>>
  /\ hostdir = <<>>
  /\ pc = "idle"
  /\ args = NoArgs
  /\ loc = NoLoc
  /\ sub = NoSub
  /\ result = NoResult
  /\ svc_log = <<>>
  /\ fs_log = <<>>
  /\ ref_results = <<>>
  /\ last_written = <<>>
  /\ fs_faulted = FALSE

\* the agent runtime calls init_function once, when the agent starts
Init == InitCommon /\ docs = AllDocs /\ calls_left = MaxCalls /\ inits_left = 1

InitRepeat == InitCommon /\ docs = RepeatDocs /\ calls_left = MaxCallsRepeat /\ inits_left = 1

(***************************************************************************)
(* web_server.py: ArtifactWebServer.start, run_server, stop                *)
(***************************************************************************)
\* threading.Thread.is_alive(): started, and run_server has not ended
IsAlive(thrs, t) == thrs[t].state \in {"started", "serving"}

\* line 149: self.server_thread and self.server_thread.is_alive()
IsRunning(srvs, thrs, i) ==
  srvs[i].server_thread # None /\ IsAlive(thrs, srvs[i].server_thread)

\* start() without the check of line 149: a new thread on every call
StartAlways(srvs, thrs, i) ==
  [servers |-> [srvs EXCEPT ![i].server_thread = Len(thrs) + 1],
   threads |-> Append(thrs, [server |-> i, state |-> "started"]),
   warned |-> FALSE]

\* a start() that only logs and leaves the thread to be made later
StartNoThread(srvs, thrs, i) == [servers |-> srvs, threads |-> thrs, warned |-> FALSE]

\* lines 147-164: start() on the instance i; a new daemon thread unless one is running
Start(srvs, thrs, i) ==
  IF IsRunning(srvs, thrs, i)
  THEN [servers |-> srvs, threads |-> thrs, warned |-> TRUE]
  ELSE [servers |-> [srvs EXCEPT ![i].server_thread = Len(thrs) + 1],
        threads |-> Append(thrs, [server |-> i, state |-> "started"]),
        warned |-> FALSE]

\* a stop() that ends the listener thread of the instance i
StopEndsThread(srvs, thrs, i) ==
  [servers |-> srvs,
   threads |-> [t \in 1..Len(thrs) |->
                  IF thrs[t].server = i THEN [thrs[t] EXCEPT !.state = "failed"]
                  ELSE thrs[t]]]

\* lines 166-170: stop() on the instance i only logs
Stop(srvs, thrs, i) == [servers |-> srvs, threads |-> thrs]

\* some listener holds the address the thread t is about to bind
AddressInUse(t) ==
  \E u \in 1..Len(threads) :
     /\ threads[u].state = "serving"
     /\ servers[threads[u].server].host = servers[threads[t].server].host
     /\ servers[threads[u].server].port = servers[threads[t].server].port

\* lines 153-160: run_server in the thread t; app.run binds the address and serves for
\* good, or raises (address in use, by a listener of this process or by another
\* process) and the thread ends
RunServer(t, bound) ==
  /\ threads[t].state = "started"
  /\ bound => ~AddressInUse(t)
  /\ threads' = [threads EXCEPT ![t].state = IF bound THEN "serving" ELSE "failed"]
  /\ UNCHANGED <<web_server_instance, host_directory_exists, servers, init, inits_left, latest>>
  /\ UNCHANGED <<toolVars, yoloVars>>

(***************************************************************************)
(* lifecycle.py: init_function, cleanup_function                           *)
(***************************************************************************)
\* a constructor that leaves the directory to be created later
MkdirSkipped(exists) == exists

\* web_server.py line 33, when it does not raise: the directory is there afterwards
Mkdir(exists) == TRUE

\* an except clause that logs and swallows the exception: init_function returns
InitFunctionCatchSwallow(config) ==
  [op |-> "init_function", outcome |-> "returned", config |-> config, server |-> None]

\* lines 59-61: except Exception: log the error and re-raise it
InitFunctionCatch(config) ==
  [op |-> "init_function", outcome |-> "raised", config |-> config, server |-> None]

\* lines 25-47 and web_server.py lines 17-38: read the config and construct the
\* instance; mkdir(parents=True, exist_ok=True) may raise, and init_function re-raises
InitFunction(config) ==
  /\ init.pc = "idle"
  /\ pc \in {"idle", "done"}
  /\ inits_left > 0
  /\ inits_left' = inits_left - 1
  /\ \E mkdir_ok \in (IF host_directory_exists THEN {TRUE} ELSE BOOLEAN) :
       IF mkdir_ok
       THEN /\ host_directory_exists' = Mkdir(host_directory_exists)
            /\ servers' = Append(servers, ArtifactWebServer(config))
            /\ init' = [pc |-> "start", config |-> config, server |-> Len(servers) + 1]
            /\ UNCHANGED latest
       ELSE /\ latest' = InitFunctionCatch(config)
            /\ UNCHANGED <<host_directory_exists, servers, init>>
  /\ UNCHANGED <<web_server_instance, threads>>
  /\ UNCHANGED <<toolVars, yoloVars>>

\* line 49: web_server.start()
InitStart ==
  /\ init.pc = "start"
  /\ LET started == Start(servers, threads, init.server)
     IN /\ servers' = started.servers
        /\ threads' = started.threads
  /\ init' = [init EXCEPT !.pc = "set"]
  /\ UNCHANGED <<web_server_instance, host_directory_exists, inits_left, latest>>
  /\ UNCHANGED <<toolVars, yoloVars>>

\* a set_web_server that keeps an instance already registered
SetWebServerKeepFirst(registered, server) ==
  IF registered # None THEN registered ELSE server

\* web_server.py lines 196-199: set_web_server(server)
SetWebServer(registered, server) == server

\* web_server.py lines 191-193: get_web_server()
GetWebServer(registered) == registered

\* lines 50-57: register the instance, log, return
InitSetWebServer ==
  /\ init.pc = "set"
  /\ web_server_instance' = SetWebServer(web_server_instance, init.server)
  /\ latest' = [op |-> "init_function", outcome |-> "returned", config |-> init.config,
                server |-> init.server]
  /\ init' = NoInit
  /\ UNCHANGED <<host_directory_exists, servers, threads, inits_left>>
  /\ UNCHANGED <<toolVars, yoloVars>>

\* lines 64-83: cleanup_function
CleanupFunction ==
  /\ init.pc = "idle"
  /\ pc \in {"idle", "done"}
  /\ LET web_server == GetWebServer(web_server_instance)
     IN IF web_server # None
        THEN LET stopped == Stop(servers, threads, web_server)
             IN /\ servers' = stopped.servers
                /\ threads' = stopped.threads
                /\ latest' = [op |-> "cleanup_function", outcome |-> "returned",
                              stopped |-> web_server, calls_left |-> calls_left]
        ELSE /\ latest' = [op |-> "cleanup_function", outcome |-> "returned",
                           stopped |-> None, calls_left |-> calls_left]
             /\ UNCHANGED <<servers, threads>>
  /\ UNCHANGED <<web_server_instance, host_directory_exists, init, inits_left>>
  /\ UNCHANGED <<toolVars, yoloVars>>

\* a second caller of start() on the instance i
CallStart(i) ==
  /\ init.pc = "idle"
  /\ IsRunning(servers, threads, i) \/ Len(threads) < MaxThreads
  /\ LET started == Start(servers, threads, i)
     IN /\ servers' = started.servers
        /\ threads' = started.threads
  /\ UNCHANGED <<web_server_instance, host_directory_exists, init, inits_left, latest>>
  /\ UNCHANGED <<toolVars, yoloVars>>

\* a caller of set_web_server with the instance i
CallSetWebServer(i) ==
  /\ init.pc = "idle"
  /\ pc \in {"idle", "done"}
  /\ web_server_instance # i
  /\ web_server_instance' = SetWebServer(web_server_instance, i)
  /\ UNCHANGED <<host_directory_exists, servers, threads, init, inits_left, latest>>
  /\ UNCHANGED <<toolVars, yoloVars>>

\* a caller of get_url on the instance i
CallGetUrl(i, filename, base_url) ==
  /\ latest' = [op |-> "get_url", server |-> i, filename |-> filename,
                base_url |-> base_url, url |-> GetUrl(servers[i], filename, base_url)]
  /\ UNCHANGED <<web_server_instance, host_directory_exists, servers, threads, init,
                 inits_left>>
  /\ UNCHANGED <<toolVars, yoloVars>>

(***************************************************************************)
(* web_server.py: the routes                                               *)
(***************************************************************************)
\* the characters of the names listed, in code point order
CharOrder == <<DotPng, "A", "B", "a", "b", "q", "r", "zz">>

CodePoint(c) == CHOOSE k \in 1..Len(CharOrder) : CharOrder[k] = c

\* x < y for two names, as sorted() compares the paths of one directory
RECURSIVE NameLess(_, _)
NameLess(x, y) ==
  IF y = <<>> THEN FALSE
  ELSE IF x = <<>> THEN TRUE
  ELSE IF x[1] = y[1] THEN NameLess(Tail(x), Tail(y))
  ELSE CodePoint(x[1]) < CodePoint(y[1])

\* sorted(...) of a set of directory entries, by name
RECURSIVE SortedEntries(_)
SortedEntries(entries) ==
  IF entries = {} THEN <<>>
  ELSE LET first == CHOOSE e \in entries :
                      \A o \in entries : o = e \/ NameLess(e.name, o.name)
       IN <<first>> \o SortedEntries(entries \ {first})

\* line 51: 1024 * 1024
BytesPerMB == 1024 * 1024
\* line 55
BytesPerKB == 1024
\* the character "."
DOT == "."

\* num / den rounded to an integer, ties to the even one, as the format rounds the
\* exact value of the float
RoundHalfEven(num, den) ==
  LET q == num \div den
      r == num % den
  IN IF 2 * r < den THEN q
     ELSE IF 2 * r > den THEN q + 1
     ELSE IF q % 2 = 0 THEN q ELSE q + 1

\* f"{x:.2f}" of x = num / den
FormatTwoDecimals(num, den) ==
  LET h == RoundHalfEven(num * 100, den)
  IN StrOfInt(h \div 100) \o <<DOT, DigitChars[((h \div 10) % 10) + 1], DigitChars[(h % 10) + 1]>>

\* a size display that takes MB only above one megabyte
SizeDisplayAboveOnly(size_bytes) ==
  IF size_bytes > BytesPerMB
  THEN FormatTwoDecimals(size_bytes, BytesPerMB) \o <<" MB">>
  ELSE FormatTwoDecimals(size_bytes, BytesPerKB) \o <<" KB">>

\* lines 51-55: size_mb = size_bytes / (1024 * 1024); MB if size_mb >= 1 else KB
SizeDisplay(size_bytes) ==
  IF size_bytes >= BytesPerMB
  THEN FormatTwoDecimals(size_bytes, BytesPerMB) \o <<" MB">>
  ELSE FormatTwoDecimals(size_bytes, BytesPerKB) \o <<" KB">>

\* iterdir() of the hosting directory as host_artifact wrote it: regular files only
DirEntries(dir) ==
  {[name |-> f, is_file |-> TRUE, size_bytes |-> Len(dir[f])] : f \in DOMAIN dir}

\* lines 43-56: index(); the regular files among the entries of the hosting
\* directory, sorted, with their sizes
Index(exists, entries) ==
  [status |-> "200",
   files |-> IF exists
             THEN LET sorted == SortedEntries(entries)
                      listed == SelectSeq(sorted, LAMBDA e : e.is_file)
                  IN [k \in 1..Len(listed) |->
                        [name |-> listed[k].name, size_bytes |-> listed[k].size_bytes,
                         size_display |-> SizeDisplay(listed[k].size_bytes)]]
             ELSE <<>>]

\* a serve_file that answers an empty 200 for a name the directory does not hold
ServeFileAlwaysOk(dir, filename) ==
  [status |-> "200", body |-> IF filename \in DOMAIN dir THEN dir[filename] ELSE <<>>]

\* lines 142-145: serve_file(filename); send_from_directory answers 404 for a name
\* the directory does not hold
ServeFile(dir, filename) ==
  IF filename \in DOMAIN dir
  THEN [status |-> "200", body |-> dir[filename]]
  ELSE [status |-> "404", body |-> <<>>]

\* a GET request handled by the listener thread t; path <<>> is "/"
HttpGet(t, path) ==
  /\ threads[t].state = "serving"
  /\ latest' = [op |-> "GET", path |-> path, thread |-> t,
                response |-> IF path = <<>>
                             THEN Index(host_directory_exists, DirEntries(hostdir))
                             ELSE ServeFile(hostdir, path)]
  /\ UNCHANGED <<web_server_instance, host_directory_exists, servers, threads, init,
                 inits_left>>
  /\ UNCHANGED <<toolVars, yoloVars>>

\* a GET / handled by the listener thread t when the hosting directory holds the
\* given entries, files and subdirectories, however they got there
GetIndex(t, entries) ==
  /\ threads[t].state = "serving"
  /\ latest' = [op |-> "GET /", thread |-> t, entries |-> entries,
                response |-> Index(host_directory_exists, entries)]
  /\ UNCHANGED <<web_server_instance, host_directory_exists, servers, threads, init,
                 inits_left>>
  /\ UNCHANGED <<toolVars, yoloVars>>

(***************************************************************************)
(* finance/tools.py: get_stock_price, get_stock_fundamentals               *)
(* Optional values are <<>> (None, or the key is missing) or <<v>>.        *)
(***************************************************************************)
\* a conversion that keeps the letters as they are
UpperUnchanged(symbol) == symbol

\* symbol.upper()
Upper(symbol) ==
  [k \in 1..Len(symbol) |->
     CASE symbol[k] = "a" -> "A"
       [] symbol[k] = "b" -> "B"
       [] OTHER -> symbol[k]]

\* not x, for a number or None
NotNumber(x) == x = <<>> \/ x[1] = 0

\* not x, for a string or None
NotString(x) == x = <<>> \/ x[1] = ""

\* x or y, for numbers
OrNumber(x, y) == IF NotNumber(x) THEN y ELSE x

\* x or y, for strings
OrString(x, y) == IF NotString(x) THEN y ELSE x

\* an info dict is empty when no key has a value
InfoEmpty(info) == \A key \in DOMAIN info : info[key] = <<>>

\* a check that takes every non-empty info for a known symbol
PriceUnknownEmptyOnly(info) == info = <<>> \/ InfoEmpty(info[1])

\* line 33: not info or info.get("regularMarketPrice") is None
PriceUnknown(info) ==
  info = <<>> \/ InfoEmpty(info[1]) \/ info[1].regularMarketPrice = <<>>

\* line 98: not info or not info.get("shortName")
FundamentalsUnknown(info) ==
  info = <<>> \/ InfoEmpty(info[1]) \/ NotString(info[1].shortName)

\* lines 35-38 and 100-103
InvalidSymbol(symbol) ==
  [status |-> "error", message |-> <<"Invalid", " or unknown symbol: ">> \o symbol]

\* lines 66-71 and 128-133: the except clauses
FetchError(what, symbol, e) ==
  [status |-> "error",
   message |-> <<"Error", " fetching ", what, " for ">> \o symbol \o <<": ", e>>]

\* lines 40-61; round(x, 2) of the values met here is exact, change_percent is
\* kept in hundredths of a percent
PriceResult(symbol, info) ==
  LET current_price == OrNumber(info.regularMarketPrice, info.currentPrice)
      previous_close == OrNumber(info.previousClose, <<>>)
      both == ~NotNumber(current_price) /\ ~NotNumber(previous_close)
      change == IF both THEN <<current_price[1] - previous_close[1]>> ELSE <<>>
  IN [status |-> "success", symbol |-> Upper(symbol),
      current_price |-> current_price, previous_close |-> previous_close,
      change |-> change,
      change_percent |-> IF both
                         THEN <<RoundHalfEven(change[1] * 100 * 100, previous_close[1])>>
                         ELSE <<>>]

\* lines 105-123
FundamentalsResult(symbol, info) ==
  [status |-> "success", symbol |-> Upper(symbol),
   company_name |-> OrString(info.shortName, <<>>)]

\* lines 28-71: get_stock_price(symbol); provider is what yf.Ticker(...).info does:
\* raises, or returns None or a dict
GetStockPrice(symbol, provider) ==
  /\ latest' = [op |-> "get_stock_price", symbol |-> symbol, queried |-> Upper(symbol),
                provider |-> provider,
                returned |-> IF provider[1] = "raise"
                             THEN FetchError("stock price", symbol, provider[2])
                             ELSE IF PriceUnknown(provider[2]) THEN InvalidSymbol(symbol)
                             ELSE PriceResult(symbol, provider[2][1])]
  /\ UNCHANGED <<web_server_instance, host_directory_exists, servers, threads, init,
                 inits_left>>
  /\ UNCHANGED <<toolVars, yoloVars>>

\* lines 93-133: get_stock_fundamentals(symbol)
GetStockFundamentals(symbol, provider) ==
  /\ latest' = [op |-> "get_stock_fundamentals", symbol |-> symbol,
                queried |-> Upper(symbol), provider |-> provider,
                returned |-> IF provider[1] = "raise"
                             THEN FetchError("fundamentals", symbol, provider[2])
                             ELSE IF FundamentalsUnknown(provider[2]) THEN InvalidSymbol(symbol)
                             ELSE FundamentalsResult(symbol, provider[2][1])]
  /\ UNCHANGED <<web_server_instance, host_directory_exists, servers, threads, init,
                 inits_left>>
  /\ UNCHANGED <<toolVars, yoloVars>>

(***************************************************************************)
(* tools.py: host_artifact                                                 *)
(***************************************************************************)
\* the coroutine ends: by a return, or (pc "raised") by an exception leaving it
Finish(end) ==
  /\ pc' = end.pc
  /\ result' = end.result

Returns(res) == [pc |-> "done", result |-> res]

\* lines 185-219: up to the first await
HostArtifact(artifact_filename, custom_filename, tool_context, tool_config) ==
  /\ pc \in {"idle", "done"}
  /\ init.pc = "idle"
  /\ calls_left > 0
  /\ calls_left' = calls_left - 1
  /\ args' = [artifact_filename |-> artifact_filename, custom_filename |-> custom_filename,
              tool_context |-> tool_context, tool_config |-> tool_config,
              web_server |-> GetWebServer(web_server_instance), dir_at_call |-> hostdir]
  /\ svc_log' = <<>>
  /\ fs_log' = <<>>
  /\ ref_results' = <<>>
  /\ sub' = NoSub
  /\ LET version_str == VersionStr(artifact_filename)
     IN IF ~tool_context.present
        THEN /\ Finish(Returns([status |-> "error",
                                message |-> Msg("ToolContext is required", <<>>, <<>>)]))
             /\ loc' = NoLoc
        ELSE IF GetWebServer(web_server_instance) = None
        THEN /\ Finish(Returns([status |-> "error",
                                message |-> Msg("Web server is not running. Please check agent configuration.",
                                                <<>>, <<>>)]))
             /\ loc' = NoLoc
        ELSE IF ~tool_context.invocation_context
        THEN /\ Finish(HostArtifactCatch(
                    Exc("ValueError", Msg("InvocationContext is not available.", <<>>, <<>>))))
             /\ loc' = NoLoc
        ELSE IF ~ContextComplete(tool_context)
        THEN /\ Finish(HostArtifactCatch(
                    Exc("ValueError", Msg("Missing required context parts", <<>>, <<>>))))
             /\ loc' = NoLoc
        ELSE IF version_str # <<>> /\ ~IsIntLiteral(version_str)
        THEN /\ Finish(HostArtifactCatch(InvalidLiteral(version_str)))
             /\ loc' = [NoLoc EXCEPT !.filename_base = FilenameBase(artifact_filename)]
        ELSE /\ pc' = IF version_str = <<>> THEN "list_versions" ELSE "load_artifact"
             /\ result' = NoResult
             /\ loc' = [NoLoc EXCEPT
                          !.filename_base = FilenameBase(artifact_filename),
                          !.version_to_load =
                             IF version_str = <<>> THEN <<>> ELSE <<IntOf(version_str)>>]
  /\ UNCHANGED <<web_server_instance, hostdir, docs, last_written, fs_faulted>>
  /\ UNCHANGED <<serverVars, workers, yoloVars>>

\* one call on the artifact service, for the primary artifact or for a reference
ServiceCall(op, role, id, filename, version, ret) ==
  svc_log' = Append(svc_log, [op |-> op, role |-> role, id |-> id, filename |-> filename,
                              version |-> version, ret |-> ret])

\* what a list_versions call returned, in short
ListKind(ret) == IF ret[1] = "raise" THEN "raise" ELSE IF ret[2] = <<>> THEN "empty" ELSE "versions"

\* lines 221-235: await list_versions, take the latest version
ListVersions ==
  /\ pc = "list_versions"
  /\ \E ret \in {<<"raise">>} \cup {<<"versions", versions>> : versions \in VersionLists} :
       /\ ServiceCall("list_versions", "primary", args.artifact_filename, loc.filename_base,
                      <<>>, ListKind(ret))
       /\ IF ret[1] = "raise"
          THEN Finish(HostArtifactCatch(ServiceError)) /\ UNCHANGED loc
          ELSE IF ret[2] = <<>>
          THEN Finish(HostArtifactCatch(ArtifactNotFound(loc.filename_base))) /\ UNCHANGED loc
          ELSE /\ pc' = "load_artifact"
               /\ loc' = [loc EXCEPT !.listed = TRUE, !.versions = ret[2],
                                     !.version_to_load = <<MaxVersionOf(ret[2])>>]
               /\ UNCHANGED result
  /\ UNCHANGED <<web_server_instance, hostdir, docs, calls_left, args, sub, fs_log,
                 ref_results, last_written, fs_faulted>>
  /\ UNCHANGED <<serverVars, workers, yoloVars>>

\* lines 258-284: the hosted name, and the references of an HTML document
AfterLoad(l, custom_filename, bytes) ==
  LET hosted_filename == HostedFilename(custom_filename, l.filename_base)
      is_html == IsHtml(hosted_filename)
      decoded == is_html /\ ValidUtf8(bytes)
      html_content == IF decoded THEN Decode(bytes) ELSE <<>>
      referenced_filenames ==
        IF decoded THEN ExtractArtifactReferences(html_content) ELSE <<>>
  IN [l EXCEPT !.listed = FALSE, !.versions = <<>>,
               !.loaded_bytes = bytes, !.artifact_bytes = bytes,
               !.hosted_filename = hosted_filename, !.is_html = is_html,
               !.decoded = decoded, !.html_content = html_content,
               !.referenced_filenames = referenced_filenames,
               !.ref_idx = IF referenced_filenames # <<>> THEN 1 ELSE 0]

\* lines 239-284: await load_artifact, then up to the next await
LoadArtifact ==
  /\ pc = "load_artifact"
  /\ \E ret \in {<<"raise">>, <<"None">>, <<"no inline_data">>}
                  \cup {<<"artifact", bytes>> : bytes \in Payloads(docs, loc.filename_base)} :
       /\ ServiceCall("load_artifact", "primary", args.artifact_filename, loc.filename_base,
                      loc.version_to_load, ret[1])
       /\ IF ret[1] = "raise"
          THEN Finish(HostArtifactCatch(ServiceError)) /\ UNCHANGED loc
          ELSE IF ret[1] # "artifact"
          THEN /\ Finish(HostArtifactCatch(
                      ContentNotFound(loc.filename_base, loc.version_to_load[1])))
               /\ UNCHANGED loc
          ELSE /\ loc' = AfterLoad(loc, args.custom_filename, ret[2])
               /\ pc' = IF loc'.referenced_filenames # <<>> THEN "ref_start" ELSE "write_file"
               /\ UNCHANGED result
  /\ UNCHANGED <<web_server_instance, hostdir, docs, calls_left, args, sub, fs_log,
                 ref_results, last_written, fs_faulted>>
  /\ UNCHANGED <<serverVars, workers, yoloVars>>

(***************************************************************************)
(* tools.py: _host_single_artifact, called for each referenced filename     *)
(***************************************************************************)
\* a loop that gives up on the remaining references once one fails
AfterReferenceAbortOnFailure(l, res) ==
  LET ref_filename == l.referenced_filenames[l.ref_idx]
  IN IF res.status = "success"
     THEN [l EXCEPT !.ref_idx = @ + 1,
                    !.filename_map = (ref_filename :> res.hosted_filename) @@ @,
                    !.referenced_artifacts =
                       Append(@, [filename |-> ref_filename,
                                  hosted_filename |-> res.hosted_filename,
                                  url |-> res.url])]
     ELSE [l EXCEPT !.ref_idx = Len(l.referenced_filenames) + 1]

\* a loop that goes on with the reference after the next one
AfterReferenceSkipNext(l, res) ==
  LET ref_filename == l.referenced_filenames[l.ref_idx]
  IN IF res.status = "success"
     THEN [l EXCEPT !.ref_idx = @ + 2,
                    !.filename_map = (ref_filename :> res.hosted_filename) @@ @,
                    !.referenced_artifacts =
                       Append(@, [filename |-> ref_filename,
                                  hosted_filename |-> res.hosted_filename,
                                  url |-> res.url])]
     ELSE [l EXCEPT !.ref_idx = @ + 2]

\* lines 301-316: take the result of one reference; after the last one, rewrite the HTML
AfterReference(l, res) ==
  LET ref_filename == l.referenced_filenames[l.ref_idx]
      l1 == IF res.status = "success"
            THEN [l EXCEPT
                    !.filename_map = (ref_filename :> res.hosted_filename) @@ @,
                    !.referenced_artifacts =
                       Append(@, [filename |-> ref_filename,
                                  hosted_filename |-> res.hosted_filename,
                                  url |-> res.url])]
            ELSE l
  IN IF l.ref_idx < Len(l.referenced_filenames)
     THEN [l1 EXCEPT !.ref_idx = @ + 1]
     ELSE [l1 EXCEPT !.ref_idx = @ + 1,
                     !.artifact_bytes =
                        RewrittenBytes(l1.artifact_bytes, l1.html_content, l1.filename_map)]

\* _host_single_artifact returns res to the loop of host_artifact (lines 288-310)
ReferenceDone(res) ==
  /\ ref_results' = Append(ref_results, res)
  /\ loc' = AfterReference(loc, res)
  /\ sub' = NoSub
  /\ pc' = IF loc'.ref_idx <= Len(loc.referenced_filenames) THEN "ref_start" ELSE "write_file"

\* lines 288-299 and 83-90: enter _host_single_artifact, parse the identifier
RefStart ==
  /\ pc = "ref_start"
  /\ LET ref_filename == loc.referenced_filenames[loc.ref_idx]
         version_str == VersionStr(ref_filename)
     IN IF version_str # <<>> /\ ~IsIntLiteral(version_str)
        THEN ReferenceDone(HostSingleCatch(ref_filename, InvalidLiteral(version_str)))
        ELSE /\ sub' = [NoSub EXCEPT
                          !.artifact_filename = ref_filename,
                          !.filename_base = FilenameBase(ref_filename),
                          !.version_to_load =
                             IF version_str = <<>> THEN <<>> ELSE <<IntOf(version_str)>>]
             /\ pc' = IF version_str = <<>> THEN "ref_list_versions" ELSE "ref_load_artifact"
             /\ UNCHANGED <<loc, ref_results>>
  /\ UNCHANGED <<web_server_instance, hostdir, docs, calls_left, args, result, svc_log,
                 fs_log, last_written, fs_faulted>>
  /\ UNCHANGED <<serverVars, workers, yoloVars>>

\* lines 92-106
RefListVersions ==
  /\ pc = "ref_list_versions"
  /\ \E ret \in {<<"raise">>} \cup {<<"versions", versions>> : versions \in VersionLists} :
       /\ ServiceCall("list_versions", "reference", sub.artifact_filename, sub.filename_base,
                      <<>>, ListKind(ret))
       /\ IF ret[1] = "raise"
          THEN ReferenceDone(HostSingleCatch(sub.artifact_filename, ServiceError))
          ELSE IF ret[2] = <<>>
          THEN ReferenceDone(HostSingleCatch(sub.artifact_filename,
                                             ArtifactNotFound(sub.filename_base)))
          ELSE /\ pc' = "ref_load_artifact"
               /\ sub' = [sub EXCEPT !.listed = TRUE, !.versions = ret[2],
                                     !.version_to_load = <<MaxVersionOf(ret[2])>>]
               /\ UNCHANGED <<loc, ref_results>>
  /\ UNCHANGED <<web_server_instance, hostdir, docs, calls_left, args, result, fs_log,
                 last_written, fs_faulted>>
  /\ UNCHANGED <<serverVars, workers, yoloVars>>

\* lines 110-127
RefLoadArtifact ==
  /\ pc = "ref_load_artifact"
  /\ \E ret \in {<<"raise">>, <<"None">>, <<"no inline_data">>}
                  \cup {<<"artifact", bytes>> : bytes \in Payloads(docs, sub.filename_base)} :
       /\ ServiceCall("load_artifact", "reference", sub.artifact_filename, sub.filename_base,
                      sub.version_to_load, ret[1])
       /\ IF ret[1] = "raise"
          THEN ReferenceDone(HostSingleCatch(sub.artifact_filename, ServiceError))
          ELSE IF ret[1] # "artifact"
          THEN ReferenceDone(HostSingleCatch(sub.artifact_filename,
                                ContentNotFound(sub.filename_base, sub.version_to_load[1])))
          ELSE /\ pc' = "ref_write_file"
               /\ sub' = [sub EXCEPT !.listed = FALSE, !.versions = <<>>,
                                     !.artifact_bytes = ret[2]]
               /\ UNCHANGED <<loc, ref_results>>
  /\ UNCHANGED <<web_server_instance, hostdir, docs, calls_left, args, result, fs_log,
                 last_written, fs_faulted>>
  /\ UNCHANGED <<serverVars, workers, yoloVars>>

\* one _write_file call in a worker thread, and what it leaves behind
DoWriteFile(role, id, name, content, outcome) ==
  /\ hostdir' = DirAfterWrite(hostdir, name, content, outcome)
  /\ fs_log' = Append(fs_log, [role |-> role, id |-> id,
                               name |-> name, content |-> content, outcome |-> outcome,
                               before |-> IF name \in DOMAIN hostdir
                                          THEN <<Len(hostdir[name])>> ELSE <<>>])
  /\ last_written' = IF outcome = "ok" THEN (name :> content) @@ last_written
                     ELSE last_written
  /\ fs_faulted' = (fs_faulted \/ outcome = "write_error")

\* a helper that rewrites the tokens of a referenced HTML artifact before writing it
ReferenceBytesRewritten(hosted_filename, artifact_bytes) ==
  IF IsHtml(hosted_filename) /\ ValidUtf8(artifact_bytes)
  THEN Encode(ReplaceArtifactReferences(Decode(artifact_bytes), <<>>))
  ELSE artifact_bytes

\* lines 126-139: _host_single_artifact writes the bytes as it loaded them
ReferenceBytes(hosted_filename, artifact_bytes) == artifact_bytes

\* lines 129-152: custom_filename is None for a reference
RefWriteFile ==
  /\ pc = "ref_write_file"
  /\ LET hosted_filename == HostedFilename(<<>>, sub.filename_base)
     IN \E outcome \in WriteOutcomes(hosted_filename) :
          /\ DoWriteFile("reference", sub.artifact_filename, hosted_filename,
                         ReferenceBytes(hosted_filename, sub.artifact_bytes), outcome)
          /\ IF outcome = "ok"
             THEN ReferenceDone(HostSingleSuccess(sub.filename_base, sub.version_to_load[1],
                                                  hosted_filename,
                                                  GetUrl(servers[args.web_server],
                                                         hosted_filename,
                                                         BaseUrlOf(args.tool_config))))
             ELSE ReferenceDone(HostSingleCatch(sub.artifact_filename, WriteError(outcome)))
  /\ UNCHANGED <<web_server_instance, docs, calls_left, args, result, svc_log>>
  /\ UNCHANGED <<serverVars, workers, yoloVars>>

\* lines 323-348: write the primary artifact and return
WritePrimary ==
  /\ pc = "write_file"
  /\ \E outcome \in WriteOutcomes(loc.hosted_filename) :
       /\ DoWriteFile("primary", args.artifact_filename, loc.hosted_filename,
                      loc.artifact_bytes, outcome)
       /\ IF outcome = "ok"
          THEN Finish(Returns(HostArtifactSuccess(loc.filename_base, loc.version_to_load[1],
                                                  loc.hosted_filename,
                                                  GetUrl(servers[args.web_server],
                                                         loc.hosted_filename,
                                                         BaseUrlOf(args.tool_config)),
                                                  loc.referenced_artifacts)))
          ELSE Finish(HostArtifactCatch(WriteError(outcome)))
  /\ UNCHANGED <<web_server_instance, docs, calls_left, args, loc, sub, svc_log,
                 ref_results>>
  /\ UNCHANGED <<serverVars, workers, yoloVars>>

(***************************************************************************)
(* tools.py: _write_file in the worker threads of concurrent host_artifact  *)
(* calls                                                                   *)
(***************************************************************************)
\* worker threads running _write_file at once
MaxWorkers == 2

\* the hosted names and the bytes the concurrent calls write
WorkerNames == {<<"f">>, <<"g">>}

WorkerContents == {<<"A", "A", "A">>, <<"B", "B">>, <<"C">>}

\* lines 323-325: a host_artifact call that found the server hands
\* _write_file(hosted_path, artifact_bytes) to a worker thread and awaits it
ToThread(name, content) ==
  /\ GetWebServer(web_server_instance) # None
  /\ Len(workers) < MaxWorkers
  /\ workers' = Append(workers, [pc |-> "open", name |-> name, content |-> content])
  /\ UNCHANGED <<web_server_instance, hostdir, docs, calls_left, pc, args, loc, sub, result,
                 svc_log, fs_log, ref_results, last_written, fs_faulted>>
  /\ UNCHANGED <<serverVars, yoloVars>>

\* line 366 in the worker thread w: open(path, 'wb')
WorkerOpen(w) ==
  /\ workers[w].pc = "open"
  /\ hostdir' = OpenWb(hostdir, workers[w].name)
  /\ workers' = [workers EXCEPT ![w].pc = "write"]
  /\ UNCHANGED <<web_server_instance, docs, calls_left, pc, args, loc, sub, result,
                 svc_log, fs_log, ref_results, last_written, fs_faulted>>
  /\ UNCHANGED <<serverVars, yoloVars>>

\* line 367 in the worker thread w, and the close that ends the with block
WorkerWrite(w) ==
  /\ workers[w].pc = "write"
  /\ hostdir' = WriteBytes(hostdir, workers[w].name, workers[w].content)
  /\ workers' = [workers EXCEPT ![w].pc = "closed"]
  /\ UNCHANGED <<web_server_instance, docs, calls_left, pc, args, loc, sub, result,
                 svc_log, fs_log, ref_results, last_written, fs_faulted>>
  /\ UNCHANGED <<serverVars, yoloVars>>

\* the tool calls of one agent, started with the default configuration
Next ==
  \/ InitFunction(DefaultConfig)
  \/ InitStart
  \/ InitSetWebServer
  \/ \E artifact_filename \in ArtifactIds, custom_filename \in CustomNames,
        tool_context \in ToolContexts :
       HostArtifact(artifact_filename, custom_filename, tool_context, NoToolConfig)
  \/ ListVersions
  \/ LoadArtifact
  \/ RefStart
  \/ RefListVersions
  \/ RefLoadArtifact
  \/ RefWriteFile
  \/ WritePrimary

Spec == Init /\ [][Next]_vars

SpecRepeat == InitRepeat /\ [][Next]_vars

\* the life of the servers: init_function, start, set_web_server, cleanup_function
\* and the listener threads, with host_artifact calls in between
InitLifecycle == InitCommon /\ docs = {} /\ calls_left = 1 /\ inits_left = MaxInits

NextLifecycle ==
  \/ InitFunction(DefaultConfig)
  \/ InitStart
  \/ InitSetWebServer
  \/ \E t \in 1..Len(threads), bound \in BOOLEAN : RunServer(t, bound)
  \/ \E i \in 1..Len(servers) : CallStart(i)
  \/ \E i \in 1..Len(servers) : CallSetWebServer(i)
  \/ CleanupFunction
  \/ HostArtifact(<<"a", COLON, "1">>, <<>>, FullContext, NoToolConfig)
  \/ LoadArtifact
  \/ WritePrimary

SpecLifecycle == InitLifecycle /\ [][NextLifecycle]_vars

\* the requests a listener answers while host_artifact calls host files
\* the paths requested: "/", the file host_artifact("a:1") hosts, a file never hosted
Paths == {<<>>, <<"a">>, <<"zz">>}

InitHttp == InitCommon /\ docs = {} /\ calls_left = MaxCallsRepeat /\ inits_left = 1

NextHttp ==
  \/ InitFunction(DefaultConfig)
  \/ InitStart
  \/ InitSetWebServer
  \/ \E t \in 1..Len(threads), bound \in BOOLEAN : RunServer(t, bound)
  \/ \E t \in 1..Len(threads), path \in Paths : HttpGet(t, path)
  \/ HostArtifact(<<"a", COLON, "1">>, <<>>, FullContext, NoToolConfig)
  \/ LoadArtifact
  \/ WritePrimary

SpecHttp == InitHttp /\ [][NextHttp]_vars

\* host_artifact calls with and without base URLs, custom names and extensions
\* an HTML document with one reference, by version
DocRef == <<"x">> \o Token(<<"r", DotPng, COLON, "1">>, <<>>)

\* the base_url of the startup configuration, and the one of tool_config
StartupBaseUrl == <<"https://proxy">>
CallBaseUrl == <<"https://cdn", SLASH>>

UrlConfigs == {DefaultConfig, [DefaultConfig EXCEPT !.base_url = StartupBaseUrl]}

ToolConfigs ==
  {NoToolConfig, [given |-> TRUE, base_url |-> <<>>], [given |-> TRUE, base_url |-> CallBaseUrl]}

UrlArtifactIds == { <<"p", DotHtml, COLON, "1">>, <<"a", COLON, "1">> }

UrlCustomNames == { <<>>, <<"q">>, <<"q", DotPng>> }

InitUrl == InitCommon /\ docs = {DocRef} /\ calls_left = MaxCalls /\ inits_left = 1

NextUrl ==
  \/ \E config \in UrlConfigs : InitFunction(config)
  \/ InitStart
  \/ InitSetWebServer
  \/ \E artifact_filename \in UrlArtifactIds, custom_filename \in UrlCustomNames,
        tool_config \in ToolConfigs :
        HostArtifact(artifact_filename, custom_filename, FullContext, tool_config)
  \/ LoadArtifact
  \/ RefStart
  \/ RefLoadArtifact
  \/ RefWriteFile
  \/ WritePrimary

SpecUrl == InitUrl /\ [][NextUrl]_vars

\* the root listing over directories of files and subdirectories
\* the entries a hosting directory can hold: files of sizes around the unit
\* boundary and at rounding ties, and subdirectories
EntryPool ==
  { [name |-> <<"a">>, is_file |-> TRUE, size_bytes |-> 2048],
    [name |-> <<"B">>, is_file |-> TRUE, size_bytes |-> BytesPerMB],
    [name |-> <<"a", "b">>, is_file |-> TRUE, size_bytes |-> BytesPerMB - 1],
    [name |-> <<"b">>, is_file |-> TRUE, size_bytes |-> 128],
    [name |-> <<"A", DotPng>>, is_file |-> TRUE, size_bytes |-> 384],
    [name |-> <<"q">>, is_file |-> TRUE, size_bytes |-> 0],
    [name |-> <<"r">>, is_file |-> TRUE, size_bytes |-> BytesPerMB + BytesPerMB \div 2],
    [name |-> <<"A">>, is_file |-> FALSE, size_bytes |-> 4096],
    [name |-> <<"zz">>, is_file |-> FALSE, size_bytes |-> BytesPerMB] }

\* directories of at most this many entries are listed
MaxEntries == 3

InitIndex == InitCommon /\ docs = {} /\ calls_left = 0 /\ inits_left = 1

NextIndex ==
  \/ InitFunction(DefaultConfig)
  \/ InitStart
  \/ InitSetWebServer
  \/ \E t \in 1..Len(threads), bound \in BOOLEAN : RunServer(t, bound)
  \/ \E t \in 1..Len(threads) :
        \E entries \in {E \in SUBSET EntryPool : Cardinality(E) <= MaxEntries} :
           GetIndex(t, entries)

SpecIndex == InitIndex /\ [][NextIndex]_vars

\* the finance tools over ticker symbols and provider answers
\* ticker symbols in lower, upper and mixed case
TickerSymbols == { <<"a", "b">>, <<"A", "B">>, <<"a", "B">>, <<"b", DOT, "a">> }

\* the info dicts the provider can return: each key with a value or without
Infos ==
  [regularMarketPrice : {<<>>, <<0>>, <<10>>},
   currentPrice : {<<>>},
   previousClose : {<<>>, <<8>>, <<16>>},
   shortName : {<<>>, <<"">>, <<"Acme">>}]

\* what the provider does: raise an exception, return None, return an info dict
ProviderAnswers ==
  {<<"raise", "HTTPError">>, <<"info", <<>>>>} \cup {<<"info", <<info>>>> : info \in Infos}

InitFinance == InitCommon /\ docs = {} /\ calls_left = 0 /\ inits_left = 0

NextFinance ==
  \/ \E symbol \in TickerSymbols, provider \in ProviderAnswers :
        GetStockPrice(symbol, provider)
  \/ \E symbol \in TickerSymbols, provider \in ProviderAnswers :
        GetStockFundamentals(symbol, provider)

SpecFinance == InitFinance /\ [][NextFinance]_vars

\* an HTML primary whose reference is HTML with a reference of its own
DocOuter == <<"x">> \o Token(<<"c", DotHtml, COLON, "1">>, <<>>)
DocInner == <<"y">> \o Token(<<"r", DotPng, COLON, "1">>, <<>>)

InitNested == InitCommon /\ docs = {DocOuter, DocInner} /\ calls_left = MaxCalls /\ inits_left = 1

NextNested ==
  \/ InitFunction(DefaultConfig)
  \/ InitStart
  \/ InitSetWebServer
  \/ \E custom_filename \in CustomNames :
        HostArtifact(<<"p", DotHtml, COLON, "1">>, custom_filename, FullContext, NoToolConfig)
  \/ LoadArtifact
  \/ RefStart
  \/ RefLoadArtifact
  \/ RefWriteFile
  \/ WritePrimary

SpecNested == InitNested /\ [][NextNested]_vars

\* get_url on instances of different addresses
\* a port and a host other than the defaults
OtherPort == 80
OtherHost == "0.0.0.0"

AddressConfigs == {DefaultConfig, [DefaultConfig EXCEPT !.port = OtherPort, !.host = OtherHost]}

\* the base_url arguments tried (<<>>: None or ""), some ending in "/"
BaseUrls ==
  { <<>>, <<"https://proxy">>, <<"https://proxy", SLASH>>,
    <<"https://proxy", SLASH, "sub", SLASH, SLASH>>, <<SLASH>> }

\* the filename arguments tried
UrlFilenames == { <<"a">>, <<"q", DotPng>>, <<"a", WS, "%", DotHtml>> }

InitGetUrl == InitCommon /\ docs = {} /\ calls_left = 0 /\ inits_left = MaxInits

NextGetUrl ==
  \/ \E config \in AddressConfigs : InitFunction(config)
  \/ InitStart
  \/ InitSetWebServer
  \/ \E i \in 1..Len(servers), filename \in UrlFilenames, base_url \in BaseUrls :
        CallGetUrl(i, filename, base_url)

SpecGetUrl == InitGetUrl /\ [][NextGetUrl]_vars

\* concurrent host_artifact calls, at their _write_file
InitConcurrent == InitCommon /\ docs = {} /\ calls_left = 0 /\ inits_left = 1

NextConcurrent ==
  \/ InitFunction(DefaultConfig)
  \/ InitStart
  \/ InitSetWebServer
  \/ \E name \in WorkerNames, content \in WorkerContents : ToThread(name, content)
  \/ \E w \in 1..Len(workers) : WorkerOpen(w)
  \/ \E w \in 1..Len(workers) : WorkerWrite(w)

SpecConcurrent == InitConcurrent /\ [][NextConcurrent]_vars

(***************************************************************************)
(* Properties                                                              *)
(***************************************************************************)
\* the text holds a complete reference token «artifact_content:<name> >>> ...»
HasReferenceToken(text) == \E i \in 1..Len(text) : ReplaceMatchEnd(text, i) # 0

\* the filenames of the complete reference tokens of the text
TokenNames(text) ==
  {Strip(SubSeq(text, i + 1, ExtractMatchEnd(text, i) - 1)) :
     i \in {j \in 1..Len(text) : ReplaceMatchEnd(text, j) # 0}}

\* host_artifact returned, and its last step was a _write_file of the primary that completed
PrimaryWritten ==
  /\ pc = "done"
  /\ fs_log # <<>>
  /\ fs_log[Len(fs_log)].role = "primary"
  /\ fs_log[Len(fs_log)].outcome = "ok"

\* the indices of the references whose list_versions call returned an empty sequence
RefsWithNoVersions ==
  {k \in 1..Len(ref_results) :
     \E j \in 1..Len(svc_log) :
        /\ svc_log[j].role = "reference"
        /\ svc_log[j].id = loc.referenced_filenames[k]
        /\ svc_log[j].op = "list_versions"
        /\ svc_log[j].ret = "empty"}

\* C1: after host_artifact returns success for a primary hosted under an .html/.htm
\* name whose bytes are valid UTF-8, the hosted content holds no complete reference
\* token, whichever of the referenced artifacts were hosted or failed.
C1_NoTokenLeft ==
  (pc = "done" /\ result.status = "success" /\ loc.is_html /\ loc.decoded)
    => ~HasReferenceToken(hostdir[result.hosted_filename])

\* C2: a reference whose artifact has no versions is replaced in the hosted HTML by its
\* bare filename, and host_artifact returns success, whether or not other references
\* of the same HTML are hosted.
C2_MissingReferenceReplaced ==
  \A k \in RefsWithNoVersions :
     PrimaryWritten =>
       /\ result.status = "success"
       /\ loc.referenced_filenames[k] \notin TokenNames(hostdir[result.hosted_filename])
       /\ hostdir[result.hosted_filename] =
            Encode(ReplaceArtifactReferences(loc.html_content, loc.filename_map))

\* the whitespace-trimmed filenames of the matches of the extract pattern, repeats kept
StrippedMatches(text) ==
  LET matches == FindAllFrom(text, 1)
  IN [k \in 1..Len(matches) |-> Strip(matches[k])]

FirstIndex(seq, x) == SetMin({k \in 1..Len(seq) : seq[k] = x})

\* the _host_single_artifact steps made for the reference r in this call
RefLoads(r) ==
  {j \in 1..Len(svc_log) :
     svc_log[j].role = "reference" /\ svc_log[j].id = r /\ svc_log[j].op = "load_artifact"}

RefWrites(r) == {j \in 1..Len(fs_log) : fs_log[j].role = "reference" /\ fs_log[j].id = r}

\* C3: extraction yields every distinct trimmed filename once, in order of first
\* occurrence; so each referenced filename is processed once per call (one fetch and
\* one write when it is hosted), and every token of a hosted filename is replaced by
\* the one name it was hosted under.
C3_ReferencesOnce ==
  loc.decoded =>
    LET names == StrippedMatches(loc.html_content)
        refs == loc.referenced_filenames
    IN /\ \A i, j \in 1..Len(refs) : i # j => refs[i] # refs[j]
       /\ Range(refs) = Range(names)
       /\ \A i, j \in 1..Len(refs) :
             i < j => FirstIndex(names, refs[i]) < FirstIndex(names, refs[j])
       /\ pc = "done" =>
            /\ Len(ref_results) = Len(refs)
            /\ \A k \in 1..Len(refs) :
                  /\ Cardinality(RefLoads(refs[k])) <= 1
                  /\ Cardinality(RefWrites(refs[k])) <= 1
                  /\ ref_results[k].status = "success" =>
                       /\ Cardinality(RefLoads(refs[k])) = 1
                       /\ Cardinality(RefWrites(refs[k])) = 1
                       /\ loc.filename_map[refs[k]] = ref_results[k].hosted_filename
                       /\ PrimaryWritten =>
                            /\ refs[k] \notin TokenNames(hostdir[result.hosted_filename])
                            /\ hostdir[result.hosted_filename] =
                                 Encode(ReplaceArtifactReferences(loc.html_content,
                                                                  loc.filename_map))

\* the document with the same token twice was hosted: one fetch, both tokens replaced
C3_Witness ==
  /\ PrimaryWritten
  /\ loc.loaded_bytes = DocDup
  /\ loc.referenced_filenames = << <<"a">> >>
  /\ Cardinality(RefLoads(<<"a">>)) = 1
  /\ hostdir[result.hosted_filename] = <<"a", "a">>

RECURSIVE HostedRefsUpTo(_)
\* the references among the first k whose hosting succeeded, in extraction order
HostedRefsUpTo(k) ==
  IF k = 0 THEN <<>>
  ELSE IF ref_results[k].status = "success"
       THEN Append(HostedRefsUpTo(k - 1), loc.referenced_filenames[k])
       ELSE HostedRefsUpTo(k - 1)

\* C4: a reference that fails to host (not found, service exception, write error)
\* stops neither the later references nor the write of the primary: every extracted
\* reference is attempted in order, the primary is written, the call returns success
\* and referenced_artifacts lists exactly the references hosted, in extraction order.
C4_FailuresSkipped ==
  (pc = "done" /\ loc.referenced_filenames # <<>>) =>
    LET refs == loc.referenced_filenames
        listed == ReferencedArtifactsOf(result)
    IN /\ Len(ref_results) = Len(refs)
       /\ \A k \in 1..Len(refs) :
             ref_results[k].artifact_filename =
               IF ref_results[k].status = "success" THEN FilenameBase(refs[k]) ELSE refs[k]
       /\ fs_log # <<>>
       /\ fs_log[Len(fs_log)].role = "primary"
       /\ PrimaryWritten =>
            /\ result.status = "success"
            /\ [k \in 1..Len(listed) |-> listed[k].filename] = HostedRefsUpTo(Len(refs))

\* the first of two references failed, the second was hosted, the call succeeded
C4_Witness ==
  /\ PrimaryWritten
  /\ Len(loc.referenced_filenames) = 2
  /\ ref_results[1].status = "error"
  /\ ref_results[2].status = "success"
  /\ result.status = "success"
  /\ Len(ReferencedArtifactsOf(result)) = 1

\* C5: bytes that are not valid UTF-8 hosted under an .html/.htm name are written
\* unchanged; no referenced artifact is fetched or written; the call returns success.
C5_UndecodableHostedUnchanged ==
  (pc = "done" /\ loc.is_html /\ BADBYTE \in Range(loc.loaded_bytes)) =>
    /\ ref_results = <<>>
    /\ \A j \in 1..Len(svc_log) : svc_log[j].role = "primary"
    /\ Cardinality({j \in 1..Len(svc_log) : svc_log[j].op = "load_artifact"}) = 1
    /\ Len(fs_log) = 1
    /\ fs_log[1].role = "primary"
    /\ fs_log[1].content = loc.loaded_bytes
    /\ PrimaryWritten =>
         /\ result.status = "success"
         /\ hostdir[result.hosted_filename] = loc.loaded_bytes
         /\ \A f \in DOMAIN hostdir : f # result.hosted_filename => f \in DOMAIN args.dir_at_call

C5_Witness ==
  /\ PrimaryWritten
  /\ loc.is_html
  /\ loc.loaded_bytes = DocBadUtf8
  /\ result.status = "success"
  /\ hostdir[result.hosted_filename] = DocBadUtf8

\* C6: whatever the input, the artifact service and the file system do, host_artifact
\* ends by returning a payload with status "success" or "error", with a message when
\* the status is "error"; no exception leaves it.
C6_AlwaysStructuredResult ==
  /\ pc # "raised"
  /\ pc = "done" =>
       /\ result.status \in {"success", "error"}
       /\ result.status = "error" =>
            ("message" \in DOMAIN result /\ result.message.text # "")

\* a malformed version in the identifier ended in an error payload
C6_Witness ==
  /\ pc = "done"
  /\ args.artifact_filename = <<"p", DotHtml, COLON, "x">>
  /\ result.status = "error"
  /\ result.message.text = "invalid literal for int() with base 10"

\* some part of the execution context is missing, or no server was registered
CallRejected ==
  \/ \E k \in DOMAIN args.tool_context : ~args.tool_context[k]
  \/ args.web_server = None

\* C7: called without a tool context, without an invocation context, without app
\* name, user id, session id or artifact service, or while no server is registered,
\* host_artifact returns an error at once: no list_versions, no load_artifact, and
\* nothing written to the hosting directory.
C7_RejectedBeforeIO ==
  (pc # "idle" /\ CallRejected) =>
    /\ pc = "done"
    /\ result.status = "error"
    /\ svc_log = <<>>
    /\ fs_log = <<>>
    /\ hostdir = args.dir_at_call

\* a call without artifact service was rejected, the files hosted before it untouched
C7_Witness ==
  /\ pc = "done"
  /\ ~args.tool_context.artifact_service
  /\ args.web_server # None
  /\ result.status = "error"
  /\ hostdir # <<>>
  /\ hostdir = args.dir_at_call

\* the not-found payload of host_artifact: the message names the artifact, nothing is written
NotFoundResult(text) ==
  /\ result.status = "error"
  /\ result.message.text = text
  /\ result.message.name = FilenameBase(args.artifact_filename)
  /\ ~result.message.wrapped
  /\ fs_log = <<>>
  /\ hostdir = args.dir_at_call

\* C8: when the primary artifact has no versions (and none was asked for), or the
\* version to load has no content (load_artifact returns nothing, or no inline
\* payload), host_artifact returns an error whose not-found message names the
\* artifact, and no file is written.
C8_PrimaryNotFound ==
  (pc = "done" /\ svc_log # <<>>) =>
    LET last == svc_log[Len(svc_log)]
    IN /\ (last.role = "primary" /\ last.op = "list_versions" /\ last.ret = "empty")
            => NotFoundResult("Artifact '{filename_base}' not found.")
       /\ (last.role = "primary" /\ last.op = "load_artifact"
             /\ last.ret \in {"None", "no inline_data"})
            => /\ NotFoundResult("Content for '{filename_base}' v{version_to_load} not found.")
               /\ result.message.version = last.version

\* the primary had no versions, after an earlier call had hosted files
C8_Witness ==
  /\ pc = "done"
  /\ svc_log # <<>>
  /\ svc_log[Len(svc_log)].ret = "empty"
  /\ svc_log[Len(svc_log)].role = "primary"
  /\ result.message.name = <<"p", DotHtml>>
  /\ hostdir # <<>>

\* the version about to be loaded for the identifier id, by the frame that resolved it
VersionResolved(id, frame, role) ==
  IF frame.listed
  THEN /\ VersionStr(id) = <<>>
       /\ frame.version_to_load[1] \in Range(frame.versions)
       /\ \A w \in Range(frame.versions) : w <= frame.version_to_load[1]
  ELSE /\ IsIntLiteral(VersionStr(id))
       /\ frame.version_to_load = <<IntOf(VersionStr(id))>>
       /\ ~\E j \in 1..Len(svc_log) :
             svc_log[j].role = role /\ svc_log[j].id = id /\ svc_log[j].op = "list_versions"

\* the versions passed to load_artifact for the identifier id
LoadedVersions(role, id) ==
  {svc_log[j].version[1] :
     j \in {i \in 1..Len(svc_log) :
              svc_log[i].role = role /\ svc_log[i].id = id /\ svc_log[i].op = "load_artifact"}}

\* C9: for the primary and for every reference, an identifier 'filename:version' loads
\* exactly that version without consulting list_versions; otherwise the version loaded
\* is the maximum of the sequence list_versions returned, in whatever order; and the
\* artifact_version of a success result is the version that was loaded.
C9_VersionResolution ==
  /\ pc = "load_artifact" => VersionResolved(args.artifact_filename, loc, "primary")
  /\ pc = "ref_load_artifact" => VersionResolved(sub.artifact_filename, sub, "reference")
  /\ (pc = "load_artifact" /\ args.artifact_filename = <<"p", DotHtml, COLON, "2">>)
       => loc.version_to_load = <<2>>
  /\ \A j \in 1..Len(svc_log) :
        svc_log[j].op = "load_artifact" =>
          /\ Len(svc_log[j].version) = 1
          /\ IsIntLiteral(VersionStr(svc_log[j].id))
               => svc_log[j].version = <<IntOf(VersionStr(svc_log[j].id))>>
  /\ (pc = "done" /\ result.status = "success")
       => LoadedVersions("primary", args.artifact_filename) = {result.artifact_version}
  /\ \A k \in 1..Len(ref_results) :
        ref_results[k].status = "success"
          => LoadedVersions("reference", loc.referenced_filenames[k])
               = {ref_results[k].artifact_version}

\* the primary was asked for by version, a reference resolved to the latest of [2, 1]
C9_Witness ==
  /\ pc = "ref_load_artifact"
  /\ args.artifact_filename = <<"p", DotHtml, COLON, "2">>
  /\ loc.version_to_load = <<2>>
  /\ sub.versions = <<2, 1>>
  /\ sub.version_to_load = <<2>>

\* C10: over completed successful calls, the content stored under a hosted filename
\* is exactly the bytes of the most recent write that targeted it: a full replacement,
\* with nothing left of earlier content, also when the later content is shorter.
C10_LastWriteWins ==
  ~fs_faulted =>
    /\ \A f \in DOMAIN hostdir : f \in DOMAIN last_written /\ hostdir[f] = last_written[f]
    /\ (pc = "done" /\ result.status = "success")
         => hostdir[result.hosted_filename] = loc.artifact_bytes

\* a later successful call replaced a longer file by shorter content
C10_Witness ==
  /\ pc = "done"
  /\ result.status = "success"
  /\ ~fs_faulted
  /\ fs_log[Len(fs_log)].before # <<>>
  /\ fs_log[Len(fs_log)].before[1] > Len(fs_log[Len(fs_log)].content)
  /\ hostdir[fs_log[Len(fs_log)].name] = fs_log[Len(fs_log)].content

\* the worker threads that wrote the file name
WritersOf(name) == {w \in 1..Len(workers) : workers[w].name = name}

\* C11: when two concurrent host_artifact calls write the same hosted filename, then
\* once both _write_file calls have completed the file holds exactly the bytes of
\* one of the two calls: no mixture of both contents, no truncated content.
C11_ConcurrentLastWriterWins ==
  \A name \in WorkerNames :
     (/\ Cardinality(WritersOf(name)) >= 2
      /\ \A w \in WritersOf(name) : workers[w].pc = "closed")
       => \E w \in WritersOf(name) : hostdir[name] = workers[w].content

\* the threads start() created for the instance i, and those of them that still run
ThreadsOf(thrs, i) == {t \in 1..Len(thrs) : thrs[t].server = i}
LiveThreadsOf(thrs, i) == {t \in ThreadsOf(thrs, i) : thrs[t].state # "failed"}

\* C12 as stated: a second start() on the same ArtifactWebServer creates no new
\* thread, for every timing of the first listener thread, including when that one
\* failed to bind its port.
C12_SecondStartNoNewThread ==
  [][\A i \in 1..Len(servers) :
       (CallStart(i) /\ servers[i].server_thread # None) => threads' = threads]_vars

\* C12, amended: a second start() on the same ArtifactWebServer raises no error and
\* leaves at most one live listener thread for the instance. While the first thread
\* is alive the call creates no thread; once the first thread has ended (it failed to
\* bind its port) the call starts a replacement, which becomes the instance's thread.
C12_SecondStart ==
  [][\A i \in 1..Len(servers) :
       (CallStart(i) /\ servers[i].server_thread # None) =>
          /\ Cardinality(LiveThreadsOf(threads', i)) <= 1
          /\ IF threads[servers[i].server_thread].state # "failed"
             THEN threads' = threads /\ servers' = servers
             ELSE /\ Len(threads') = Len(threads) + 1
                  /\ SubSeq(threads', 1, Len(threads)) = threads
                  /\ threads'[Len(threads')].server = i
                  /\ LiveThreadsOf(threads', i) = {Len(threads')}
                  /\ servers'[i].server_thread = Len(threads')]_vars

\* the first listener of an instance failed to bind, and a second start() replaced it
C12_Witness ==
  \E i \in 1..Len(servers) :
     /\ Cardinality(ThreadsOf(threads, i)) = 2
     /\ Cardinality(LiveThreadsOf(threads, i)) = 1
     /\ servers[i].server_thread \in LiveThreadsOf(threads, i)

\* a step that registers an instance: the end of init_function, or set_web_server
Registers(i) == (InitSetWebServer /\ init.server = i) \/ CallSetWebServer(i)

\* C13: the registry slot holds at most one server instance, and get_web_server
\* returns the instance of the most recent successful registration (only a
\* registration changes what it returns); registering an instance succeeds also when
\* another one is registered, and leaves every listener thread as it was, the
\* previously registered instance's included.
C13_RegistryHoldsLatest ==
  [][/\ GetWebServer(web_server_instance') \in {None} \cup (1..Len(servers'))
     /\ \A i \in 1..Len(servers) :
          Registers(i) => /\ GetWebServer(web_server_instance') = i
                          /\ threads' = threads
                          /\ servers' = servers
     /\ GetWebServer(web_server_instance') # GetWebServer(web_server_instance)
          => \E i \in 1..Len(servers) : Registers(i)]_vars

\* a second instance replaced the first in the registry while the first one's
\* listener is still serving
C13_Witness ==
  /\ Len(servers) >= 2
  /\ GetWebServer(web_server_instance) = 2
  /\ servers[1].server_thread # None
  /\ threads[servers[1].server_thread].state = "serving"

\* C14: cleanup_function and stop() change no state: when cleanup_function returns
\* (it returns normally also with an empty registry) the registry holds the same
\* instance, every listener thread is in the state it was in, and the hosting
\* directory and its files are unchanged, so that a later host_artifact call finds
\* what it found before.
C14_CleanupChangesNothing ==
  [][CleanupFunction =>
       /\ latest'.op = "cleanup_function"
       /\ latest'.outcome = "returned"
       /\ latest'.stopped = GetWebServer(web_server_instance)
       /\ web_server_instance' = web_server_instance
       /\ servers' = servers
       /\ threads' = threads
       /\ hostdir' = hostdir
       /\ host_directory_exists' = host_directory_exists]_vars

\* cleanup_function stopped the registered instance, whose listener still serves,
\* and a host_artifact call made after it succeeded
C14_Witness ==
  /\ latest.op = "cleanup_function"
  /\ latest.stopped # None
  /\ GetWebServer(web_server_instance) = latest.stopped
  /\ threads[servers[latest.stopped].server_thread].state = "serving"
  /\ latest.calls_left > calls_left
  /\ pc = "done"
  /\ result.status = "success"

\* C15 as stated, for the port: init_function does not return normally, registering
\* the instance, when the listener it started could not bind its port.
C15_BindFailurePropagates ==
  [][InitSetWebServer => threads[servers[init.server].server_thread].state # "failed"]_vars

\* C15, amended: when the hosting directory cannot be created, init_function raises
\* the exception instead of swallowing it, the registry slot is left as it was and no
\* listener thread is started. A port that cannot be bound is not detected: the bind
\* fails in the listener thread, and init_function returns normally and registers
\* the instance.
C15_MkdirFailurePropagates ==
  [][/\ (InitFunction(DefaultConfig) /\ ~host_directory_exists') =>
          /\ latest'.op = "init_function"
          /\ latest'.outcome = "raised"
          /\ web_server_instance' = web_server_instance
          /\ servers' = servers
          /\ threads' = threads
          /\ init'.pc = "idle"
     /\ InitSetWebServer =>
          /\ latest'.outcome = "returned"
          /\ GetWebServer(web_server_instance') = init.server]_vars

\* init_function raised because the directory could not be created; nothing is
\* registered, no instance and no thread exists
C15_Witness ==
  /\ latest.op = "init_function"
  /\ latest.outcome = "raised"
  /\ ~host_directory_exists
  /\ GetWebServer(web_server_instance) = None
  /\ servers = <<>>
  /\ threads = <<>>

\* C16: the hosting directory exists as soon as a server instance exists: before
\* start() creates the instance's listener thread, before any listener accepts a
\* request, before the instance is visible through the registry and before a file
\* is hosted; the constructor creates it, and succeeds when it is already there.
C16_DirectoryBeforeServing ==
  (\/ servers # <<>>
   \/ threads # <<>>
   \/ init.pc \in {"start", "set"}
   \/ GetWebServer(web_server_instance) # None
   \/ DOMAIN hostdir # {})
    => host_directory_exists

\* a second instance was constructed over the existing directory and registered,
\* and its listener accepts requests
C16_Witness ==
  /\ Len(servers) = 2
  /\ GetWebServer(web_server_instance) = 2
  /\ servers[2].server_thread # None
  /\ threads[servers[2].server_thread].state = "serving"
  /\ host_directory_exists

\* C20: no HTTP request changes the hosting directory or ends the listener: a GET
\* leaves the hosted files, their contents and the threads as they were, and the
\* files change only in the write step of a host_artifact call; GET /<path> answers
\* 200 with exactly the current bytes of the named file when the directory holds
\* it, and 404 otherwise.
C20_GetChangesNothing ==
  [][/\ \A t \in 1..Len(threads), path \in Paths :
          HttpGet(t, path) =>
             /\ hostdir' = hostdir
             /\ host_directory_exists' = host_directory_exists
             /\ threads' = threads
             /\ threads'[t].state = "serving"
             /\ path # <<>> =>
                  IF path \in DOMAIN hostdir
                  THEN /\ latest'.response.status = "200"
                       /\ latest'.response.body = hostdir[path]
                  ELSE latest'.response.status = "404"
     /\ hostdir' # hostdir => pc = "write_file"]_vars

\* a GET of a hosted file answered its bytes, after the host_artifact calls that
\* wrote the file
C20_Witness ==
  /\ latest.op = "GET"
  /\ latest.path \in DOMAIN hostdir
  /\ latest.response.status = "200"
  /\ latest.response.body = hostdir[latest.path]
  /\ latest.response.body # <<>>
  /\ calls_left = 0
  /\ pc = "done"
  /\ result.status = "success"

\* the number a sequence of decimal digits denotes
RECURSIVE DecimalValue(_)
DecimalValue(ds) ==
  IF ds = <<>> THEN 0
  ELSE 10 * DecimalValue(SubSeq(ds, 1, Len(ds) - 1))
       + (CHOOSE d \in 0..9 : DigitChars[d + 1] = ds[Len(ds)])

\* url is "http://", the host, ":", the decimal digits of the port, "/", the filename
IsDefaultUrl(url, host, port, filename) ==
  \E n \in 1..Len(url) :
     /\ url = <<HTTP, host, COLON>> \o SubSeq(url, 4, 3 + n) \o <<SLASH>> \o filename
     /\ \A k \in 4..(3 + n) : url[k] \in Range(DigitChars)
     /\ (n > 1 => url[4] # "0")
     /\ DecimalValue(SubSeq(url, 4, 3 + n)) = port

\* url is the base URL up to its trailing "/" characters, then "/" and the filename
IsOverrideUrl(url, base_url, filename) ==
  \E n \in 0..Len(base_url) :
     /\ \A k \in (n + 1)..Len(base_url) : base_url[k] = SLASH
     /\ (n > 0 => base_url[n] # SLASH)
     /\ url = SubSeq(base_url, 1, n) \o <<SLASH>> \o filename

\* C17: get_url depends on the instance's host and port, the filename and the
\* base URL only, and changes no state: without a base URL it returns
\* "http://{host}:{port}/{filename}", with a base URL b it returns b without its
\* trailing "/" characters, then "/" and the filename, the filename as it is given.
C17_GetUrl ==
  [][\A i \in 1..Len(servers), filename \in UrlFilenames, base_url \in BaseUrls :
       CallGetUrl(i, filename, base_url) =>
          /\ IF base_url = <<>>
             THEN IsDefaultUrl(latest'.url, servers[i].host, servers[i].port, filename)
             ELSE IsOverrideUrl(latest'.url, base_url, filename)
          /\ \A j \in 1..Len(servers) :
               (servers[j].host = servers[i].host /\ servers[j].port = servers[i].port)
                 => latest'.url = GetUrl(servers[j], filename, base_url)
          /\ servers' = servers
          /\ threads' = threads
          /\ web_server_instance' = web_server_instance
          /\ hostdir' = hostdir]_vars

\* get_url with a base URL that ends in "/", on the instance of the other address
C17_Witness ==
  /\ latest.op = "get_url"
  /\ servers[latest.server].port = OtherPort
  /\ latest.base_url # <<>>
  /\ latest.base_url[Len(latest.base_url)] = SLASH
  /\ latest.url = <<"https://proxy", SLASH>> \o latest.filename

\* the URL of the file name under the base URL b, or under the address of the
\* instance server when b is empty
UrlUnder(b, server, name) ==
  IF b # <<>> THEN RStripSlash(b) \o <<SLASH>> \o name
  ELSE <<HTTP, server.host, COLON>> \o StrOfInt(server.port) \o <<SLASH>> \o name

\* C18: the URL host_artifact returns, and the URLs of its referenced artifacts,
\* are built with the base_url of tool_config when it supplies one, otherwise with
\* the base_url of the startup configuration when one was configured, otherwise
\* from the server's host and port; the base URL changes neither the hosted
\* filename nor the bytes written.
C18_BaseUrlPrecedence ==
  (/\ pc = "done"
   /\ result.status = "success"
   /\ latest.op = "init_function"
   /\ latest.outcome = "returned"
   /\ args.web_server = latest.server)
    => LET b == IF BaseUrlOf(args.tool_config) # <<>> THEN BaseUrlOf(args.tool_config)
                ELSE latest.config.base_url
           refs == ReferencedArtifactsOf(result)
       IN /\ result.url = UrlUnder(b, servers[args.web_server], result.hosted_filename)
          /\ \A k \in 1..Len(refs) :
               refs[k].url = UrlUnder(b, servers[args.web_server], refs[k].hosted_filename)
          /\ result.hosted_filename
               = HostedFilename(args.custom_filename, FilenameBase(args.artifact_filename))
          /\ fs_log[Len(fs_log)].content = loc.artifact_bytes

\* the name ends in an extension
HasExtension(name) == name # <<>> /\ name[Len(name)] \in Extensions

\* C19: the hosted filename of the primary artifact is the source base filename
\* (the identifier without its ":version") when no custom filename is given, the
\* custom filename when it has an extension or the source has none, and the custom
\* filename followed by the source's extension otherwise; hosted_filename in the
\* result is the name of the file that was written.
C19_HostedFilename ==
  (pc = "done" /\ result.status = "success") =>
     LET custom == args.custom_filename
         colons == {k \in 1..Len(args.artifact_filename) : args.artifact_filename[k] = COLON}
         base == IF colons = {} THEN args.artifact_filename
                 ELSE SubSeq(args.artifact_filename, 1, SetMax(colons) - 1)
         written == fs_log[Len(fs_log)]
     IN /\ result.hosted_filename =
             (IF custom = <<>> THEN base
              ELSE IF HasExtension(custom) \/ ~HasExtension(base) THEN custom
              ELSE custom \o <<base[Len(base)]>>)
        /\ written.role = "primary"
        /\ written.outcome = "ok"
        /\ written.name = result.hosted_filename
        /\ result.hosted_filename \in DOMAIN hostdir

\* a custom filename without extension was given for a source with one, and the
\* file was written under the custom name with the source's extension
C19_Witness ==
  /\ pc = "done"
  /\ result.status = "success"
  /\ args.custom_filename = <<"q">>
  /\ result.hosted_filename = <<"q", DotHtml>>
  /\ <<"q", DotHtml>> \in DOMAIN hostdir

\* the number of hundredths a display "digits.dd" denotes
Hundredths(display) ==
  LET dot == CHOOSE k \in 1..Len(display) : display[k] = DOT
  IN DecimalValue(SubSeq(display, 1, dot - 1)) * 100
     + DecimalValue(SubSeq(display, dot + 1, dot + 2))

\* display shows size_bytes / unit_bytes to two decimals, followed by the unit
ShowsSize(display, size_bytes, unit_bytes, unit) ==
  /\ Len(display) >= 5
  /\ display[Len(display)] = unit
  /\ display[Len(display) - 3] = DOT
  /\ \A k \in 1..(Len(display) - 1) : k # Len(display) - 3 => display[k] \in Range(DigitChars)
  /\ LET h == Hundredths(SubSeq(display, 1, Len(display) - 1))
         d == h * unit_bytes - size_bytes * 100
     IN /\ 2 * d <= unit_bytes
        /\ -2 * d <= unit_bytes

\* C21: the root listing holds exactly the regular files directly under the
\* hosting directory, no subdirectory, sorted by name; a file of n bytes is shown
\* in MB exactly when n >= 1048576 and in KB otherwise, as n / 1048576 or n / 1024
\* to two decimals: 1048576 bytes show "1.00 MB", 2048 bytes show "2.00 KB".
C21_RootListing ==
  latest.op = "GET /" =>
    LET files == latest.response.files
    IN /\ latest.response.status = "200"
       /\ {[name |-> files[k].name, size_bytes |-> files[k].size_bytes] : k \in 1..Len(files)}
            = {[name |-> e.name, size_bytes |-> e.size_bytes] :
                 e \in {x \in latest.entries : x.is_file}}
       /\ \A j, k \in 1..Len(files) : j < k => NameLess(files[j].name, files[k].name)
       /\ \A k \in 1..Len(files) :
            LET n == files[k].size_bytes
            IN /\ IF n >= 1048576
                  THEN ShowsSize(files[k].size_display, n, 1048576, " MB")
                  ELSE ShowsSize(files[k].size_display, n, 1024, " KB")
               /\ n = 1048576 => files[k].size_display = <<"1", DOT, "0", "0", " MB">>
               /\ n = 2048 => files[k].size_display = <<"2", DOT, "0", "0", " KB">>

\* a directory with a file of 1048576 bytes, a file of 2048 bytes and a
\* subdirectory was listed: "B" before "a", the subdirectory left out
C21_Witness ==
  /\ latest.op = "GET /"
  /\ Cardinality(latest.entries) = 3
  /\ \E e \in latest.entries : ~e.is_file
  /\ Len(latest.response.files) = 2
  /\ latest.response.files[1].size_bytes = 1048576
  /\ latest.response.files[1].size_display = <<"1", DOT, "0", "0", " MB">>
  /\ latest.response.files[2].size_bytes = 2048

FinanceCall == latest.op \in {"get_stock_price", "get_stock_fundamentals"}

\* the letters of the model's ticker symbols, lower case and upper case
IsUpperCaseOf(upper, symbol) ==
  /\ Len(upper) = Len(symbol)
  /\ \A k \in 1..Len(symbol) :
       \/ symbol[k] \in {"a", "A"} /\ upper[k] = "A"
       \/ symbol[k] \in {"b", "B"} /\ upper[k] = "B"
       \/ symbol[k] \notin {"a", "A", "b", "B"} /\ upper[k] = symbol[k]

\* C22: for a ticker symbol s in any letter case, the data provider is queried with
\* s in upper case, and a success result of get_stock_price or
\* get_stock_fundamentals has s in upper case as its symbol.
C22_SymbolUpperCased ==
  FinanceCall =>
    /\ IsUpperCaseOf(latest.queried, latest.symbol)
    /\ latest.returned.status = "success"
         => IsUpperCaseOf(latest.returned.symbol, latest.symbol)

\* a call with a symbol in mixed case succeeded
C22_Witness ==
  /\ FinanceCall
  /\ latest.symbol = <<"a", "B">>
  /\ latest.returned.status = "success"
  /\ latest.returned.symbol = <<"A", "B">>

\* C23: when the provider raises, returns no info, or returns an info without
\* regularMarketPrice (get_stock_price) or without shortName
\* (get_stock_fundamentals), the tool returns status "error" with a message
\* containing "Invalid" or "Error"; every call returns, with success or error.
C23_UnknownSymbolIsError ==
  FinanceCall =>
    LET answer == latest.provider
        unknown ==
          \/ answer[1] = "raise"
          \/ answer[2] = <<>>
          \/ \A key \in DOMAIN answer[2][1] : answer[2][1][key] = <<>>
          \/ latest.op = "get_stock_price" /\ answer[2][1].regularMarketPrice = <<>>
          \/ latest.op = "get_stock_fundamentals" /\ answer[2][1].shortName \in {<<>>, <<"">>}
    IN /\ latest.returned.status \in {"success", "error"}
       /\ unknown =>
            /\ latest.returned.status = "error"
            /\ \E k \in 1..Len(latest.returned.message) :
                 latest.returned.message[k] \in {"Invalid", "Error"}

\* get_stock_price got an info that has a company name but no price, and returned
\* the error for an invalid symbol
C23_Witness ==
  /\ latest.op = "get_stock_price"
  /\ latest.provider[1] = "info"
  /\ latest.provider[2] # <<>>
  /\ latest.provider[2][1].shortName = <<"Acme">>
  /\ latest.provider[2][1].regularMarketPrice = <<>>
  /\ latest.returned.status = "error"
  /\ latest.returned.message[1] = "Invalid"

\* the step appends an entry to the log
Logged(log_before, log_after) == Len(log_after) = Len(log_before) + 1

\* C24: within one host_artifact call the referenced artifacts are processed one
\* at a time in extraction order: every service call and every write for a
\* reference is for the first reference that has no result yet, and each step
\* ends at most one reference. The primary file is written only when every
\* reference has its result, so that every referenced artifact listed in the
\* result was written before the primary.
C24_ReferencesSequential ==
  [][/\ (Logged(svc_log, svc_log') /\ svc_log'[Len(svc_log')].role = "reference") =>
          /\ Len(ref_results) < Len(loc.referenced_filenames)
          /\ svc_log'[Len(svc_log')].id = loc.referenced_filenames[Len(ref_results) + 1]
     /\ (Logged(fs_log, fs_log') /\ fs_log'[Len(fs_log')].role = "reference") =>
          /\ Len(ref_results) < Len(loc.referenced_filenames)
          /\ fs_log'[Len(fs_log')].id = loc.referenced_filenames[Len(ref_results) + 1]
     /\ Len(ref_results') > Len(ref_results) => Len(ref_results') = Len(ref_results) + 1
     /\ (Logged(fs_log, fs_log') /\ fs_log'[Len(fs_log')].role = "primary") =>
          /\ Len(ref_results) = Len(loc.referenced_filenames)
          /\ \A k \in 1..Len(loc.referenced_artifacts) :
               \E j \in 1..Len(fs_log) :
                  /\ fs_log[j].role = "reference"
                  /\ fs_log[j].id = loc.referenced_artifacts[k].filename
                  /\ fs_log[j].name = loc.referenced_artifacts[k].hosted_filename
                  /\ fs_log[j].outcome = "ok"]_vars

\* an HTML primary with two references was hosted: two reference writes, in
\* extraction order, then the primary write
C24_Witness ==
  /\ pc = "done"
  /\ result.status = "success"
  /\ Len(loc.referenced_filenames) = 2
  /\ Len(fs_log) = 3
  /\ fs_log[1].id = loc.referenced_filenames[1]
  /\ fs_log[2].id = loc.referenced_filenames[2]
  /\ fs_log[3].role = "primary"
  /\ \A j \in 1..3 : fs_log[j].outcome = "ok"

\* C25 as stated: the filename map maps every successfully hosted reference
\* filename to itself, for every form of reference including "filename:version".
C25_MapIsIdentity ==
  \A key \in DOMAIN loc.filename_map : loc.filename_map[key] = key

\* the positions of ":" in a reference filename
ColonsOf(key) == {k \in 1..Len(key) : key[k] = COLON}

\* C25, amended: the filename map has exactly the successfully hosted reference
\* filenames as keys, and maps each to the name it was hosted under: the reference
\* filename up to its last ":", so the reference filename itself exactly when it
\* has no ":version" suffix.
C25_MapIsHostedName ==
  /\ \A key \in DOMAIN loc.filename_map :
       /\ loc.filename_map[key] =
            (IF ColonsOf(key) = {} THEN key ELSE SubSeq(key, 1, SetMax(ColonsOf(key)) - 1))
       /\ loc.filename_map[key] = key <=> ColonsOf(key) = {}
       /\ \E k \in 1..Len(ref_results) :
            /\ ref_results[k].status = "success"
            /\ loc.referenced_filenames[k] = key
            /\ ref_results[k].hosted_filename = loc.filename_map[key]
  /\ \A k \in 1..Len(ref_results) :
       ref_results[k].status = "success" => loc.referenced_filenames[k] \in DOMAIN loc.filename_map

\* a call hosted a reference given as "filename:version" and one given without
\* version: the first is mapped to the filename alone, the second to itself
C25_Witness ==
  /\ pc = "done"
  /\ result.status = "success"
  /\ \E key \in DOMAIN loc.filename_map : ColonsOf(key) # {} /\ loc.filename_map[key] # key
  /\ \E key \in DOMAIN loc.filename_map : ColonsOf(key) = {} /\ loc.filename_map[key] = key

\* the successful writes of references that are HTML with reference tokens
NestedWrites ==
  {j \in 1..Len(fs_log) :
     /\ fs_log[j].role = "reference"
     /\ fs_log[j].outcome = "ok"
     /\ IsHtml(fs_log[j].name)
     /\ ExtractArtifactReferences(fs_log[j].content) # <<>>}

\* C26 as stated: hosting of referenced artifacts is recursive: when a hosted
\* reference is HTML with reference tokens, the artifacts it references are
\* hosted too in the same call, and its tokens are rewritten.
C26_ReferencesRecursive ==
  (pc = "done" /\ result.status = "success") =>
     \A j \in NestedWrites :
        /\ \A inner \in Range(ExtractArtifactReferences(fs_log[j].content)) :
             \E k \in 1..Len(fs_log) : fs_log[k].id = inner
        /\ OPEN \notin Range(hostdir[fs_log[j].name])

\* C26, amended: hosting of referenced artifacts goes one level deep: the service
\* is called, and files are written, only for the primary and for the references
\* extracted from the primary's own HTML; a referenced artifact is written with
\* the bytes loaded for it, unchanged also when it is HTML with reference tokens.
C26_ReferencesOneLevel ==
  [][/\ (Logged(svc_log, svc_log') /\ svc_log'[Len(svc_log')].role = "reference") =>
          /\ loc.referenced_filenames = ExtractArtifactReferences(loc.html_content)
          /\ svc_log'[Len(svc_log')].id \in Range(loc.referenced_filenames)
     /\ (Logged(fs_log, fs_log') /\ fs_log'[Len(fs_log')].role = "reference") =>
          /\ fs_log'[Len(fs_log')].id \in Range(ExtractArtifactReferences(Decode(loc.loaded_bytes)))
          /\ fs_log'[Len(fs_log')].content = sub.artifact_bytes
          /\ fs_log'[Len(fs_log')].outcome = "ok"
               => hostdir'[fs_log'[Len(fs_log')].name] = sub.artifact_bytes]_vars

\* a call succeeded whose reference is HTML with a token of its own: the inner
\* HTML is hosted with the token in it, and only it and the primary were written
C26_Witness ==
  /\ pc = "done"
  /\ result.status = "success"
  /\ NestedWrites # {}
  /\ Len(fs_log) = 2
  /\ \E j \in NestedWrites : OPEN \in Range(hostdir[fs_log[j].name])

(***************************************************************************)
(* object_detection/tools.py: the module-level model cache, _get_yolo_model *)
(***************************************************************************)
DefaultModelName == "yolo11m.pt"

\* tool_config: <<>> has no model_name, <<n>> has model_name n
YoloConfigs == {<<>>, <<"yolov8n.pt">>}

\* tool_config.get("model_name", "yolo11m.pt")
ModelNameOf(tool_config) == IF tool_config = <<>> THEN DefaultModelName ELSE tool_config[1]

\* the first test, made without the lock
OuterCheck(model) == model = None

InnerCheckSkipped(model) == TRUE

\* the second test, made with the lock held ("Double-check pattern")
InnerCheck(model) == model = None

\* asyncio.Lock.acquire returns at once only when the lock is free and nobody waits
LockFree(lock) == ~lock.locked /\ lock.waiters = <<>>

\* asyncio.to_thread(YOLO, model_name): the construction starts in a worker thread
StartLoad(c, model_name) ==
  Append(loads, [by |-> c, model_name |-> model_name, outcome |-> "running"])

\* the construction that caller c is waiting for
LoadOf(c) == CHOOSE k \in 1..Len(loads) : loads[k].by = c /\ loads[k].outcome = "running"

\* a coroutine calls _get_yolo_model: it returns the cached model, or takes the
\* free lock and starts the load, or is suspended on the lock
GetYoloModel(c, tool_config) ==
  /\ callers[c].pc = "idle"
  /\ IF ~OuterCheck(yolo_model)
       THEN /\ callers' = [callers EXCEPT ![c] = [pc |-> "returned", tool_config |-> tool_config,
                                                 waited |-> FALSE, got |-> yolo_model]]
            /\ UNCHANGED <<model_lock, loads>>
       ELSE IF ~LockFree(model_lock)
         THEN /\ model_lock' = [model_lock EXCEPT !.waiters = Append(@, c)]
              /\ callers' = [callers EXCEPT ![c] = [pc |-> "waiting", tool_config |-> tool_config,
                                                   waited |-> TRUE, got |-> None]]
              /\ UNCHANGED loads
         ELSE IF InnerCheck(yolo_model)
           THEN /\ model_lock' = [model_lock EXCEPT !.locked = TRUE]
                /\ loads' = StartLoad(c, ModelNameOf(tool_config))
                /\ callers' = [callers EXCEPT ![c] = [pc |-> "loading", tool_config |-> tool_config,
                                                     waited |-> FALSE, got |-> None]]
           ELSE /\ callers' = [callers EXCEPT ![c] = [pc |-> "returned", tool_config |-> tool_config,
                                                     waited |-> FALSE, got |-> yolo_model]]
                /\ UNCHANGED <<model_lock, loads>>
  /\ UNCHANGED yolo_model
  /\ UNCHANGED <<web_server_instance, toolVars, serverVars>>

\* the lock was released and the first waiter resumes with it: it tests again, and
\* loads the model or leaves the lock and returns the cached one
LockAcquired(c) ==
  /\ callers[c].pc = "waiting"
  /\ ~model_lock.locked
  /\ model_lock.waiters # <<>>
  /\ Head(model_lock.waiters) = c
  /\ IF InnerCheck(yolo_model)
       THEN /\ model_lock' = [locked |-> TRUE, waiters |-> Tail(model_lock.waiters)]
            /\ loads' = StartLoad(c, ModelNameOf(callers[c].tool_config))
            /\ callers' = [callers EXCEPT ![c].pc = "loading"]
       ELSE /\ model_lock' = [locked |-> FALSE, waiters |-> Tail(model_lock.waiters)]
            /\ callers' = [callers EXCEPT ![c].pc = "returned", ![c].got = yolo_model]
            /\ UNCHANGED loads
  /\ UNCHANGED yolo_model
  /\ UNCHANGED <<web_server_instance, toolVars, serverVars>>

\* the worker thread ended: YOLO(model_name) returned the model, which is stored
\* and returned, or it raised, and the exception leaves _get_yolo_model; the lock
\* is released either way
LoadDone(c, constructed) ==
  /\ callers[c].pc = "loading"
  /\ LET k == LoadOf(c)
     IN IF constructed
          THEN /\ yolo_model' = k
               /\ loads' = [loads EXCEPT ![k].outcome = "constructed"]
               /\ callers' = [callers EXCEPT ![c].pc = "returned", ![c].got = k]
          ELSE /\ loads' = [loads EXCEPT ![k].outcome = "raised"]
               /\ callers' = [callers EXCEPT ![c].pc = "raised"]
               /\ UNCHANGED yolo_model
  /\ model_lock' = [model_lock EXCEPT !.locked = FALSE]
  /\ UNCHANGED <<web_server_instance, toolVars, serverVars>>

InitYolo == InitCommon /\ docs = {} /\ calls_left = 0 /\ inits_left = 0

NextYolo ==
  \/ \E c \in YoloCallers, tool_config \in YoloConfigs : GetYoloModel(c, tool_config)
  \/ \E c \in YoloCallers : LockAcquired(c)
  \/ \E c \in YoloCallers, constructed \in BOOLEAN : LoadDone(c, constructed)

SpecYolo == InitYolo /\ [][NextYolo]_vars

\* the constructions that gave a model
Constructed == {k \in 1..Len(loads) : loads[k].outcome = "constructed"}

\* C27: under any interleaving of concurrent _get_yolo_model calls, at most one
\* construction of the model succeeds and none is started after it; every call
\* that returned normally returned the cached model, which is not None, so all
\* callers hold the same object.
C27_ModelLoadedOnce ==
  /\ Cardinality(Constructed) <= 1
  /\ \A k \in Constructed : k = Len(loads) /\ yolo_model = k
  /\ \A c \in YoloCallers :
        callers[c].pc = "returned" => callers[c].got # None /\ callers[c].got = yolo_model

\* a load failed, the next one gave the model, and a caller that was suspended
\* on the lock meanwhile returned the model another caller had constructed
C27_Witness ==
  /\ Len(loads) = 2
  /\ loads[1].outcome = "raised"
  /\ \E c \in YoloCallers :
        /\ callers[c].pc = "returned"
        /\ callers[c].waited
        /\ callers[c].got = 2
        /\ loads[2].by # c

\* the _write_file calls of this host_artifact call that got past open()
Opened == {j \in 1..Len(fs_log) : fs_log[j].outcome # "open_error"}

\* the files that differ from what the hosting directory held when the call began
ChangedFiles ==
  {name \in DOMAIN hostdir :
     name \notin DOMAIN args.dir_at_call \/ hostdir[name] # args.dir_at_call[name]}

InitAgent == InitCommon /\ docs = {} /\ calls_left = MaxCallsRepeat /\ inits_left = MaxInits

NextAgent ==
  \/ InitFunction(DefaultConfig)
  \/ InitStart
  \/ InitSetWebServer
  \/ \E t \in 1..Len(threads), bound \in BOOLEAN : RunServer(t, bound)
  \/ CleanupFunction
  \/ HostArtifact(<<"a", COLON, "1">>, <<>>, FullContext, NoToolConfig)
  \/ LoadArtifact
  \/ WritePrimary

SpecAgent == InitAgent /\ [][NextAgent]_vars

\* start() has made a listener thread for the instance i
Started(i) ==
  /\ servers[i].server_thread # None
  /\ servers[i].server_thread \in 1..Len(threads)
  /\ threads[servers[i].server_thread].server = i

\* C29: through init_function, cleanup_function and host_artifact, the instance
\* get_web_server returns has had start() called on it before it was registered,
\* so the instance a host_artifact call found is a started one; and a success
\* result of host_artifact implies an instance was registered when the call began.
C29_RegisteredIsStarted ==
  /\ GetWebServer(web_server_instance) # None => Started(GetWebServer(web_server_instance))
  /\ (pc # "idle" /\ args.web_server # None) => Started(args.web_server)
  /\ (pc = "done" /\ result.status = "success") => args.web_server # None

\* a second init_function registered its instance, cleanup_function ran, and a
\* host_artifact call then succeeded with the started instance it found
C29_Witness ==
  /\ pc = "done"
  /\ result.status = "success"
  /\ Len(servers) = 2
  /\ args.web_server = 2
  /\ latest.op = "cleanup_function"
  /\ Started(args.web_server)

(***************************************************************************)
(* tools.py: _extract_artifact_references and _replace_artifact_references  *)
(* on arbitrary HTML text                                                  *)
(***************************************************************************)
\* bound on the length of the HTML texts, in symbols
MaxTextLen == 4

\* the symbols the two patterns tell apart, and a letter
TextSymbols == {OPEN, "a", WS, SEP, CLOSE, RSAQUO}

HtmlTexts == UNION {[1..n -> TextSymbols] : n \in 0..MaxTextLen}

\* filename_map: empty, or the reference "a" hosted as "h"
FilenameMaps == {<<>>, (<<"a">> :> <<"h">>)}

\* the original_filename of every call re.sub makes on replace_reference, in order
RECURSIVE SubstitutedFrom(_, _)
SubstitutedFrom(s, i) ==
  IF i > Len(s) THEN <<>>
  ELSE LET c == ReplaceMatchEnd(s, i)
       IN IF c = 0 THEN SubstitutedFrom(s, i + 1)
          ELSE <<Strip(SubSeq(s, i + 1, ExtractMatchEnd(s, i) - 1))>>
               \o SubstitutedFrom(s, c + 1)

\* lines 29-38: a call of _extract_artifact_references
CallExtract(html_content) ==
  /\ latest' = [op |-> "_extract_artifact_references", html_content |-> html_content,
                returned |-> ExtractArtifactReferences(html_content)]
  /\ UNCHANGED <<web_server_instance, host_directory_exists, servers, threads, init,
                 inits_left>>
  /\ UNCHANGED <<toolVars, yoloVars>>

\* lines 55-65: a call of _replace_artifact_references
CallReplace(html_content, filename_map) ==
  /\ latest' = [op |-> "_replace_artifact_references", html_content |-> html_content,
                filename_map |-> filename_map,
                substituted |-> SubstitutedFrom(html_content, 1),
                returned |-> ReplaceArtifactReferences(html_content, filename_map)]
  /\ UNCHANGED <<web_server_instance, host_directory_exists, servers, threads, init,
                 inits_left>>
  /\ UNCHANGED <<toolVars, yoloVars>>

\* the HTML text the two functions are called on
InitRewriter ==
  /\ InitCommon
  /\ \E html_content \in HtmlTexts : docs = {html_content}
  /\ calls_left = 0
  /\ inits_left = 0

NextRewriter ==
  \/ \E html_content \in docs : CallExtract(html_content)
  \/ \E html_content \in docs, filename_map \in FilenameMaps :
        CallReplace(html_content, filename_map)

SpecRewriter == InitRewriter /\ [][NextRewriter]_vars

\* C30: extraction and replacement agree on what a reference is: for any HTML
\* text the filenames _extract_artifact_references returns are the filenames of
\* the tokens _replace_artifact_references substitutes, tokens with no closing
\* CLOSE and tokens with more than one ">>>" included.
C30_ExtractReplaceAgree ==
  /\ latest.op = "_extract_artifact_references" =>
       Range(latest.returned) = Range(SubstitutedFrom(latest.html_content, 1))
  /\ latest.op = "_replace_artifact_references" =>
       Range(latest.substituted) = Range(ExtractArtifactReferences(latest.html_content))

=============================================================================
